---- MODULE Spec2Model ----
(***************************************************************************)
(* Model of the golden-dataset builders of guten_split                     *)
(* (src/exploration/golden_dataset): coordinate extraction, segmentation   *)
(* equivalence, disagreement classification and stratified sampling.       *)
(*                                                                         *)
(* Text is a sequence of one-character strings; a document is the list of  *)
(* raw lines f.readlines() returns (each line keeps its "\n").             *)
(***************************************************************************)
EXTENDS Integers, Sequences, FiniteSets, TLC

VARIABLES
    \* coordinate extraction (one chunk of one document)
    original_lines,     \* the document: raw lines with their separators
    span,               \* <<start_line, start_col, end_line, end_col>>
    original_region,    \* result of the display extraction
    original_text,      \* result of the verbatim extraction
    chunk_outcome,      \* what the caller did with the chunk
    xpc,                \* position in the extraction pipeline
    \* alignment and classification (one region)
    seams_sentences,    \* the primary method's sentences
    pysbd_sentences,    \* the first reference's (or the compared method's) sentences
    nupunkt_sentences,  \* the second reference's sentences
    similar,            \* result of sentences_are_similar
    differ,             \* result of segmentations_differ
    disagreement_type,  \* verdict of the three-way classifier
    boundary_type,      \* verdict of the two-way classifier
    cpc,                \* position in the comparison pipeline
    \* stratified sampling (one run of a builder)
    builder,            \* which script's sampler runs
    all_examples,       \* the candidate records, in construction order
    target_size,        \* the requested number of examples
    category_idx,       \* how many categories the per-category loop has done
    selected_examples,  \* positions (in all_examples) selected so far, in order
    result,             \* what the sampler returned (positions)
    spc,                \* position in the sampler
    \* parsing a tagged-sentence file
    parser,             \* which parser reads the file
    file_lines,         \* the lines of the file, as iteration over it yields them
    line_idx,           \* how many lines the loop has consumed
    sentences_with_coords, \* the records collected so far
    parsed,             \* what the parser returned
    ppc,                \* position in the parser
    \* chunking the sentences of one document
    seams_data,         \* the parsed records <<text, sl, sc, el, ec>>, in file order
    chunk_i,            \* the loop index i of find_natural_text_boundaries (0-based)
    start_idx,          \* where the chunk under construction starts
    boundaries,         \* the chunks found so far, as half-open index pairs
    kpc,                \* position in the chunker
    \* the overlap test of the boundary builder
    comparison_sent,    \* the candidate sentence of the compared method
    seams_texts,        \* the reference sentences (the seams group)
    region_text,        \* the text of the region
    overlaps,           \* result of sentences_overlap
    opc,                \* position in the overlap test
    \* comparing the regions of one file pair
    script,             \* which script's loop runs
    regions,            \* per region: the extracted text and the segmentations
    region_idx,         \* how many regions the loop has consumed
    differences,        \* the accumulated disagreement records
    dpc,                \* position in the loop
    \* two runs of a builder on the same files with the same seed
    run_builder,        \* which script both runs execute
    run_seed,           \* the --seed both runs are given
    run_target,         \* the --target-size both runs are given
    seams_file_texts,   \* the sentence texts of the seams file, in file order
    fast_file_texts,    \* the sentence texts of the fast file
    run_examples,       \* per run: all_examples, in construction order
    run_output,         \* per run: the examples returned, in output order
    rpc,                \* per run: position in the script
    \* the region search of the boundary builder on one file pair
    source_lines,       \* the original document's lines
    seams_records,      \* the seams file's records <<text, sl, sc, el, ec>>
    comparison_sentences, \* the comparison file's sentences, in file order
    segmenters,         \* what the segmentation libraries do in this run
    seams_start,        \* the loop variable of the group loop
    fast_idx,           \* the cursor into comparison_sentences
    scan_i,             \* the loop variable i of the search
    overlapping_comparison, \* the overlapping sentences found for the group
    consumed_count,     \* how many of them lie at or after the cursor
    region_examples,    \* the examples appended so far
    wpc,                \* position in the region search
    \* a whole run of a builder over the file pairs of a corpus
    corpus_script,      \* which script runs
    file_pairs,         \* the file pairs, in the order they are analysed
    max_files,          \* --max-files
    requested_size,     \* --target-size
    corpus_seed,        \* --seed
    files_processed,    \* how many file pairs the loop has done
    file_examples,      \* per analysed file pair: the records constructed for it
    extended_files,     \* how many files' records have joined all_examples
    values_drawn,       \* how many values the random generator has given
    selected_output,    \* the records the builder returned
    exported,           \* the records written to the output file
    gpc                 \* position in the run

extractVars == <<original_lines, span, original_region, original_text, chunk_outcome, xpc>>

alignVars == <<seams_sentences, pysbd_sentences, nupunkt_sentences, similar, differ,
               disagreement_type, boundary_type, cpc>>

sampleVars == <<builder, all_examples, target_size, category_idx, selected_examples,
                result, spc>>

parseVars == <<parser, file_lines, line_idx, sentences_with_coords, parsed, ppc>>

chunkVars == <<seams_data, chunk_i, start_idx, boundaries, kpc>>

overlapVars == <<comparison_sent, seams_texts, region_text, overlaps, opc>>

compareVars == <<script, regions, region_idx, differences, dpc>>

runVars == <<run_builder, run_seed, run_target, seams_file_texts, fast_file_texts,
             run_examples, run_output, rpc>>

windowVars == <<source_lines, seams_records, comparison_sentences, segmenters, seams_start,
                fast_idx, scan_i, overlapping_comparison, consumed_count, region_examples,
                wpc>>

corpusVars == <<corpus_script, file_pairs, max_files, requested_size, corpus_seed,
                files_processed, file_examples, extended_files, values_drawn,
                selected_output, exported, gpc>>

vars == <<extractVars, alignVars, sampleVars, parseVars, chunkVars, overlapVars,
          compareVars, runVars, windowVars, corpusVars>>

\* the parts of the state a pipeline does not use stay as they are here
ExtractIdle ==
    /\ original_lines = <<>>
    /\ span = <<1, 1, 1, 1>>
    /\ original_region = <<>>
    /\ original_text = <<>>
    /\ chunk_outcome = "pending"
    /\ xpc = "idle"

AlignIdle ==
    /\ seams_sentences = <<>>
    /\ pysbd_sentences = <<>>
    /\ nupunkt_sentences = <<>>
    /\ similar = FALSE
    /\ differ = FALSE
    /\ disagreement_type = "none"
    /\ boundary_type = "none"
    /\ cpc = "idle"

SampleIdle ==
    /\ builder = "none"
    /\ all_examples = <<>>
    /\ target_size = 0
    /\ category_idx = 0
    /\ selected_examples = <<>>
    /\ result = <<>>
    /\ spc = "idle"

ParseIdle ==
    /\ parser = "none"
    /\ file_lines = <<>>
    /\ line_idx = 0
    /\ sentences_with_coords = <<>>
    /\ parsed = <<>>
    /\ ppc = "idle"

ChunkIdle ==
    /\ seams_data = <<>>
    /\ chunk_i = 0
    /\ start_idx = 0
    /\ boundaries = <<>>
    /\ kpc = "idle"

OverlapIdle ==
    /\ comparison_sent = <<>>
    /\ seams_texts = <<>>
    /\ region_text = <<>>
    /\ overlaps = FALSE
    /\ opc = "idle"

CompareIdle ==
    /\ script = "none"
    /\ regions = <<>>
    /\ region_idx = 0
    /\ differences = <<>>
    /\ dpc = "idle"

RunIdle ==
    /\ run_builder = "none"
    /\ run_seed = 0
    /\ run_target = 0
    /\ seams_file_texts = <<>>
    /\ fast_file_texts = {}
    /\ run_examples = <<>>
    /\ run_output = <<>>
    /\ rpc = <<>>

WindowIdle ==
    /\ source_lines = <<>>
    /\ seams_records = <<>>
    /\ comparison_sentences = <<>>
    /\ segmenters = "none"
    /\ seams_start = 0
    /\ fast_idx = 0
    /\ scan_i = 0
    /\ overlapping_comparison = <<>>
    /\ consumed_count = 0
    /\ region_examples = <<>>
    /\ wpc = "idle"

CorpusIdle ==
    /\ corpus_script = "none"
    /\ file_pairs = <<>>
    /\ max_files = 0
    /\ requested_size = 0
    /\ corpus_seed = 0
    /\ files_processed = 0
    /\ file_examples = <<>>
    /\ extended_files = 0
    /\ values_drawn = 0
    /\ selected_output = <<>>
    /\ exported = <<>>
    /\ gpc = "idle"

\* what lies outside each pipeline, and its resting state
outsideExtract ==
    <<alignVars, sampleVars, parseVars, chunkVars, overlapVars, compareVars, runVars,
      windowVars, corpusVars>>
outsideAlign ==
    <<extractVars, sampleVars, parseVars, chunkVars, overlapVars, compareVars, runVars,
      windowVars, corpusVars>>
outsideSample ==
    <<extractVars, alignVars, parseVars, chunkVars, overlapVars, compareVars, runVars,
      windowVars, corpusVars>>
outsideParse ==
    <<extractVars, alignVars, sampleVars, chunkVars, overlapVars, compareVars, runVars,
      windowVars, corpusVars>>
outsideChunk ==
    <<extractVars, alignVars, sampleVars, parseVars, overlapVars, compareVars, runVars,
      windowVars, corpusVars>>
outsideOverlap ==
    <<extractVars, alignVars, sampleVars, parseVars, chunkVars, compareVars, runVars,
      windowVars, corpusVars>>
outsideCompare ==
    <<extractVars, alignVars, sampleVars, parseVars, chunkVars, overlapVars, runVars,
      windowVars, corpusVars>>
outsideRun ==
    <<extractVars, alignVars, sampleVars, parseVars, chunkVars, overlapVars, compareVars,
      windowVars, corpusVars>>
outsideWindow ==
    <<extractVars, alignVars, sampleVars, parseVars, chunkVars, overlapVars, compareVars,
      runVars, corpusVars>>
outsideCorpus ==
    <<extractVars, alignVars, sampleVars, parseVars, chunkVars, overlapVars, compareVars,
      runVars, windowVars>>

OutsideExtractIdle ==
    AlignIdle /\ SampleIdle /\ ParseIdle /\ ChunkIdle /\ OverlapIdle /\ CompareIdle /\
    RunIdle /\ WindowIdle /\ CorpusIdle
OutsideAlignIdle ==
    ExtractIdle /\ SampleIdle /\ ParseIdle /\ ChunkIdle /\ OverlapIdle /\ CompareIdle /\
    RunIdle /\ WindowIdle /\ CorpusIdle
OutsideSampleIdle ==
    ExtractIdle /\ AlignIdle /\ ParseIdle /\ ChunkIdle /\ OverlapIdle /\ CompareIdle /\
    RunIdle /\ WindowIdle /\ CorpusIdle
OutsideParseIdle ==
    ExtractIdle /\ AlignIdle /\ SampleIdle /\ ChunkIdle /\ OverlapIdle /\ CompareIdle /\
    RunIdle /\ WindowIdle /\ CorpusIdle
OutsideChunkIdle ==
    ExtractIdle /\ AlignIdle /\ SampleIdle /\ ParseIdle /\ OverlapIdle /\ CompareIdle /\
    RunIdle /\ WindowIdle /\ CorpusIdle
OutsideOverlapIdle ==
    ExtractIdle /\ AlignIdle /\ SampleIdle /\ ParseIdle /\ ChunkIdle /\ CompareIdle /\
    RunIdle /\ WindowIdle /\ CorpusIdle
OutsideCompareIdle ==
    ExtractIdle /\ AlignIdle /\ SampleIdle /\ ParseIdle /\ ChunkIdle /\ OverlapIdle /\
    RunIdle /\ WindowIdle /\ CorpusIdle
OutsideRunIdle ==
    ExtractIdle /\ AlignIdle /\ SampleIdle /\ ParseIdle /\ ChunkIdle /\ OverlapIdle /\
    CompareIdle /\ WindowIdle /\ CorpusIdle
OutsideWindowIdle ==
    ExtractIdle /\ AlignIdle /\ SampleIdle /\ ParseIdle /\ ChunkIdle /\ OverlapIdle /\
    CompareIdle /\ RunIdle /\ CorpusIdle
OutsideCorpusIdle ==
    ExtractIdle /\ AlignIdle /\ SampleIdle /\ ParseIdle /\ ChunkIdle /\ OverlapIdle /\
    CompareIdle /\ RunIdle /\ WindowIdle

----------------------------------------------------------------------------
(* Bounds of the model *)

\* most lines in a document
MaxLines == 3
\* largest column number of a span
MaxCol == 5

----------------------------------------------------------------------------
(* Python built-ins, as the code uses them *)

Min(x, y) == IF x <= y THEN x ELSE y

Max(x, y) == IF x >= y THEN x ELSE y

\* s[i:j] with 0-based i, j; negative indices count from the end, and
\* indices past either end are clamped
PySlice(s, i, j) ==
    LET n  == Len(s)
        lo == IF i < 0 THEN Max(n + i, 0) ELSE Min(i, n)
        hi == IF j < 0 THEN Max(n + j, 0) ELSE Min(j, n)
    IN  IF lo >= hi THEN <<>> ELSE SubSeq(s, lo + 1, hi)

\* s[i:]
PySliceFrom(s, i) == PySlice(s, i, Len(s))

\* s[:j]
PySliceTo(s, j) == PySlice(s, 0, j)

\* characters str.strip() and str.split() treat as whitespace
Whitespace == {" ", "\n", "\r", "\t"}

\* characters rstrip('\n\r') removes
LineSeparators == {"\n", "\r"}

RECURSIVE RStripChars(_, _)
RStripChars(s, chars) ==
    IF s = <<>> THEN s
    ELSE IF s[Len(s)] \in chars THEN RStripChars(SubSeq(s, 1, Len(s) - 1), chars)
    ELSE s

RECURSIVE LStripChars(_, _)
LStripChars(s, chars) ==
    IF s = <<>> THEN s
    ELSE IF s[1] \in chars THEN LStripChars(Tail(s), chars)
    ELSE s

\* line.rstrip('\n\r')
RStripLine(line) == RStripChars(line, LineSeparators)

\* text.strip()
PyStrip(s) == LStripChars(RStripChars(s, Whitespace), Whitespace)

\* sep.join(parts)
RECURSIVE PyJoin(_, _)
PyJoin(sep, parts) ==
    IF parts = <<>> THEN <<>>
    ELSE IF Len(parts) = 1 THEN parts[1]
    ELSE parts[1] \o sep \o PyJoin(sep, Tail(parts))

\* lines[idx] is defined: a negative idx counts from the end of the list,
\* anything else raises IndexError
PyIndexOk(lines, idx) == idx < Len(lines) /\ idx >= 0 - Len(lines)

\* lines[idx], for an idx PyIndexOk accepts
PyIndex(lines, idx) == IF idx < 0 THEN lines[Len(lines) + idx + 1] ELSE lines[idx + 1]

\* [f(lines[k]) for k in range(lo, hi)] concatenated by the caller
RECURSIVE MiddleLines(_, _, _)
MiddleLines(lines, lo, hi) ==
    IF lo >= hi THEN <<>>
    ELSE <<lines[lo + 1]>> \o MiddleLines(lines, lo + 1, hi)

RECURSIVE Flatten(_)
Flatten(parts) ==
    IF parts = <<>> THEN <<>> ELSE parts[1] \o Flatten(Tail(parts))

RECURSIVE MapRStrip(_)
MapRStrip(lines) ==
    IF lines = <<>> THEN <<>> ELSE <<RStripLine(lines[1])>> \o MapRStrip(Tail(lines))

----------------------------------------------------------------------------
(* Coordinate extraction *)

\* a same-line display extraction that takes end_col as the last column
\* covered instead of the first one excluded
extract_original_region_end_inclusive(lines, start_line, start_col, end_line, end_col) ==
    IF start_line > Len(lines) \/ end_line > Len(lines) \/ start_line # end_line THEN <<>>
    ELSE PySlice(RStripLine(PyIndex(lines, start_line - 1)), start_col - 1, end_col)

\* a display extraction that leaves out the lines strictly between the first
\* and the last line of the span
extract_original_region_without_interior(lines, start_line, start_col, end_line, end_col) ==
    IF start_line > Len(lines) \/ end_line > Len(lines) THEN <<>>
    ELSE IF start_line = end_line
         THEN PySlice(RStripLine(PyIndex(lines, start_line - 1)), start_col - 1, end_col - 1)
         ELSE LET first_line == RStripLine(PyIndex(lines, start_line - 1))
                  first_part == IF start_col - 1 < Len(first_line)
                                THEN <<PySliceFrom(first_line, start_col - 1)>>
                                ELSE <<>>
                  last_line  == RStripLine(PyIndex(lines, end_line - 1))
              IN  PyJoin(<<" ">>, first_part \o <<PySliceTo(last_line, Min(end_col - 1, Len(last_line)))>>)

\* BoundaryGoldSetBuilder.extract_original_region / GoldSetBuilder.extract_original_text:
\* the display extraction (parts joined by one space)
extract_original_region(lines, start_line, start_col, end_line, end_col) ==
    IF start_line > Len(lines) \/ end_line > Len(lines) THEN <<>>
    ELSE
    LET start_line_idx == start_line - 1
        end_line_idx   == end_line - 1
        start_col_idx  == start_col - 1
        end_col_idx    == end_col - 1
    IN  IF start_line_idx = end_line_idx
        THEN LET line == RStripLine(PyIndex(lines, start_line_idx))
             IN  IF end_col_idx <= Len(line)
                 THEN PySlice(line, start_col_idx, end_col_idx)
                 ELSE PySliceFrom(line, start_col_idx)
        ELSE LET first_line == RStripLine(PyIndex(lines, start_line_idx))
                 first_part == IF start_col_idx < Len(first_line)
                               THEN <<PySliceFrom(first_line, start_col_idx)>>
                               ELSE <<>>
                 middle     == MapRStrip(MiddleLines(lines, start_line_idx + 1, end_line_idx))
                 last_line  == RStripLine(PyIndex(lines, end_line_idx))
                 last_part  == IF end_line_idx < Len(lines)
                               THEN IF end_col_idx <= Len(last_line)
                                    THEN <<PySliceTo(last_line, end_col_idx)>>
                                    ELSE <<last_line>>
                               ELSE <<>>
             IN  PyJoin(<<" ">>, first_part \o middle \o last_part)

\* the body of extract_original_text_from_coordinates raises IndexError
VerbatimRaises(lines, start_line, end_line) ==
    \/ ~PyIndexOk(lines, start_line - 1)
    \/ ~PyIndexOk(lines, end_line - 1)

\* a verbatim extraction that trims every line and joins the pieces with one
\* space, as the display extraction does
extract_verbatim_space_joined(lines, start_line, start_col, end_line, end_col) ==
    IF VerbatimRaises(lines, start_line, end_line) THEN <<>>
    ELSE IF start_line = end_line
         THEN PySlice(PyIndex(lines, start_line - 1), start_col - 1, end_col - 1)
         ELSE PyJoin(<<" ">>,
                  <<PySliceFrom(RStripLine(PyIndex(lines, start_line - 1)), start_col - 1)>>
                  \o MapRStrip(MiddleLines(lines, start_line, end_line - 1))
                  \o <<PySliceTo(RStripLine(PyIndex(lines, end_line - 1)), end_col - 1)>>)

\* extract_original_text_from_coordinates: the verbatim extraction (raw
\* lines, separators kept); any exception is caught and "" returned
extract_original_text_from_coordinates(lines, start_line, start_col, end_line, end_col) ==
    IF VerbatimRaises(lines, start_line, end_line) THEN <<>>
    ELSE
    LET start_line_idx == start_line - 1
        end_line_idx   == end_line - 1
        start_col_idx  == start_col - 1
        end_col_idx    == end_col - 1
    IN  IF start_line_idx = end_line_idx
        THEN PySlice(PyIndex(lines, start_line_idx), start_col_idx, end_col_idx)
        ELSE PySliceFrom(PyIndex(lines, start_line_idx), start_col_idx)
             \o Flatten(MiddleLines(lines, start_line_idx + 1, end_line_idx))
             \o PySliceTo(PyIndex(lines, end_line_idx), end_col_idx)

----------------------------------------------------------------------------
(* Inputs of the extraction model *)

SeqsUpTo(S, n) == UNION {[1..k -> S] : k \in 0..n}

TheQuickBrownFox ==
    <<"T","h","e"," ","q","u","i","c","k"," ","b","r","o","w","n"," ","f","o","x">>

\* the text of a line, without its separator
LineTexts == {<<>>, <<"a", "b">>, TheQuickBrownFox}

\* f.readlines(): every line ends with "\n", except possibly the last one
WithNewlines(texts, final_newline) ==
    [k \in 1..Len(texts) |->
        IF k < Len(texts) \/ final_newline THEN texts[k] \o <<"\n">> ELSE texts[k]]

\* (a last line without separator is never empty)
Docs ==
    {WithNewlines(t, TRUE) : t \in (SeqsUpTo(LineTexts, MaxLines) \ {<<>>})}
    \cup {WithNewlines(t, FALSE) :
              t \in {u \in SeqsUpTo(LineTexts, MaxLines) \ {<<>>} : u[Len(u)] # <<>>}}

\* line numbers as the coordinate pattern (\d+) can deliver them, 0 included
LineNumbers == 0..(MaxLines + 1)

ColNumbers == 1..MaxCol

Spans == LineNumbers \X ColNumbers \X LineNumbers \X ColNumbers

\* find_differences_in_file_pair skips a chunk whose text, stripped, is shorter
MinChunkChars == 10

----------------------------------------------------------------------------
(* The extraction pipeline for one chunk *)

NoText == <<>>

InitExtract ==
    /\ original_lines \in Docs
    /\ span \in Spans
    /\ original_region = NoText
    /\ original_text = NoText
    /\ chunk_outcome = "pending"
    /\ xpc = "start"
    /\ OutsideExtractIdle

\* the display extraction of the span
ExtractDisplay ==
    /\ xpc = "start"
    /\ original_region' =
           extract_original_region(original_lines, span[1], span[2], span[3], span[4])
    /\ xpc' = "displayed"
    /\ UNCHANGED <<original_lines, span, original_text, chunk_outcome>>
    /\ UNCHANGED outsideExtract

\* the verbatim extraction of the span
ExtractVerbatim ==
    /\ xpc = "displayed"
    /\ original_text' =
           extract_original_text_from_coordinates(original_lines, span[1], span[2], span[3], span[4])
    /\ xpc' = "extracted"
    /\ UNCHANGED <<original_lines, span, original_region, chunk_outcome>>
    /\ UNCHANGED outsideExtract

\* find_differences_in_file_pair: "if not original_text or
\* len(original_text.strip()) < 10: continue"
ChunkIsSkipped(text) == text = <<>> \/ Len(PyStrip(text)) < MinChunkChars

SkipChunk ==
    /\ xpc = "extracted"
    /\ ChunkIsSkipped(original_text)
    /\ chunk_outcome' = "skipped"
    /\ xpc' = "done"
    /\ UNCHANGED <<original_lines, span, original_region, original_text>>
    /\ UNCHANGED outsideExtract

CompareChunk ==
    /\ xpc = "extracted"
    /\ ~ChunkIsSkipped(original_text)
    /\ chunk_outcome' = "compared"
    /\ xpc' = "done"
    /\ UNCHANGED <<original_lines, span, original_region, original_text>>
    /\ UNCHANGED outsideExtract

NextExtract ==
    \/ ExtractDisplay
    \/ ExtractVerbatim
    \/ SkipChunk
    \/ CompareChunk

SpecExtract == InitExtract /\ [][NextExtract]_vars

----------------------------------------------------------------------------
(* Claims about coordinate extraction *)

Extracted == xpc \in {"extracted", "done"}

start_line == span[1]
start_col  == span[2]
end_line   == span[3]
end_col    == span[4]

ValidLine(n) == n >= 1 /\ n <= Len(original_lines)

\* the characters of line at the 1-based columns c with from <= c < to
Columns(line, from, to) ==
    LET last == Min(to - 1, Len(line))
    IN  IF from > last THEN <<>> ELSE [k \in 1..(last - from + 1) |-> line[from + k - 1]]

SameLineSpan == start_line = end_line /\ ValidLine(start_line) /\ start_col <= end_col

\* C1 as stated: for a same-line span of an existing line with
\* start_col <= end_col, the display and the verbatim extraction both return
\* the columns start_col..end_col-1 of the line with its separator trimmed.
C1_BothTrimmedSlice ==
    (Extracted /\ SameLineSpan) =>
        LET trimmed == RStripLine(original_lines[start_line])
        IN  /\ original_region = Columns(trimmed, start_col, end_col)
            /\ original_text = Columns(trimmed, start_col, end_col)

\* C1 amended: for a same-line span of an existing line with
\* 1 <= start_col <= end_col, the display extraction returns the columns
\* start_col..end_col-1 of the trimmed line, the verbatim extraction returns
\* the same columns of the raw line (separator kept), and the two agree
\* whenever end_col - 1 does not exceed the length of the trimmed line.
C1_SameLineSlices ==
    (Extracted /\ SameLineSpan) =>
        LET raw     == original_lines[start_line]
            trimmed == RStripLine(raw)
        IN  /\ original_region = Columns(trimmed, start_col, end_col)
            /\ original_text = Columns(raw, start_col, end_col)
            /\ (end_col - 1 <= Len(trimmed) => original_text = original_region)

\* span (3,1,3,4) over line 3 = "The quick brown fox" yields "The" twice
C1_Witness ==
    /\ Extracted
    /\ span = <<3, 1, 3, 4>>
    /\ Len(original_lines) = 3
    /\ RStripLine(original_lines[3]) = TheQuickBrownFox
    /\ original_region = <<"T", "h", "e">>
    /\ original_text = <<"T", "h", "e">>

OutOfRangeSpan == ~ValidLine(start_line) \/ ~ValidLine(end_line)

\* C2 as stated: a span whose start or end line is not a line number of the
\* document yields no text from either extraction, and the caller skips the
\* chunk.
C2_OutOfRangeYieldsNothing ==
    (Extracted /\ OutOfRangeSpan) =>
        /\ original_region = NoText
        /\ original_text = NoText
        /\ (xpc = "done" => chunk_outcome = "skipped")

MultiLineSpan == ValidLine(start_line) /\ ValidLine(end_line) /\ start_line < end_line

\* the lines strictly between the first and the last line of the span, trimmed
InteriorLines ==
    [k \in 1..(end_line - start_line - 1) |-> RStripLine(original_lines[start_line + k])]

FirstLineSuffix == Columns(RStripLine(original_lines[start_line]), start_col, MaxCol + Len(original_lines[start_line]) + 2)

LastLinePrefix == Columns(RStripLine(original_lines[end_line]), 1, end_col)

\* C14 as stated: for a multi-line span inside the document the display
\* extraction is the single-space join of exactly end_line - start_line + 1
\* parts (first-line suffix, interior lines, last-line prefix), none of them
\* dropped even when it is empty.
C14_AllPartsJoined ==
    (Extracted /\ MultiLineSpan) =>
        original_region =
            PyJoin(<<" ">>, <<FirstLineSuffix>> \o InteriorLines \o <<LastLinePrefix>>)

\* C14 amended: for a multi-line span inside the document the display
\* extraction is the single-space join of the first-line suffix (left out
\* when start_col lies beyond the trimmed first line, i.e. the suffix is
\* empty), every interior line and the last-line prefix; interior lines and
\* the last-line prefix are kept even when empty.
C14_FirstPartOptional ==
    (Extracted /\ MultiLineSpan) =>
        LET first_part == IF FirstLineSuffix = <<>> THEN <<>> ELSE <<FirstLineSuffix>>
        IN  original_region =
                PyJoin(<<" ">>, first_part \o InteriorLines \o <<LastLinePrefix>>)

\* lines "ab", "", "ab" with span (1,1,3,1): three parts "ab", "", "" joined
\* into "ab" followed by two spaces
C14_Witness ==
    /\ Extracted
    /\ span = <<1, 1, 3, 1>>
    /\ Len(original_lines) = 3
    /\ RStripLine(original_lines[1]) = <<"a", "b">>
    /\ RStripLine(original_lines[2]) = <<>>
    /\ original_region = <<"a", "b", " ", " ">>

\* str.split(sep) for a one-character separator
SplitOn(s, sep) ==
    LET RECURSIVE Go(_, _, _)
        Go(k, cur, acc) ==
            IF k > Len(s) THEN Append(acc, cur)
            ELSE IF s[k] = sep THEN Go(k + 1, <<>>, Append(acc, cur))
                 ELSE Go(k + 1, Append(cur, s[k]), acc)
    IN  Go(1, <<>>, <<>>)

VerbatimPieces == SplitOn(original_text, "\n")

\* C15 as stated: for a multi-line span inside the document, splitting the
\* verbatim extraction on line breaks gives the first line's suffix from
\* start_col as first element and the last line's prefix up to (excluding)
\* end_col as last element, for every end_col.
C15_VerbatimEnds ==
    (Extracted /\ MultiLineSpan) =>
        /\ VerbatimPieces[1] = FirstLineSuffix
        /\ VerbatimPieces[Len(VerbatimPieces)] = LastLinePrefix

\* both columns address the trimmed text of their line or the position just
\* past it
ColumnsWithinText ==
    /\ start_col <= Len(RStripLine(original_lines[start_line])) + 1
    /\ end_col <= Len(RStripLine(original_lines[end_line])) + 1

\* C15 amended: for a multi-line span inside the document whose start_col and
\* end_col are at most one past the trimmed text of their line, splitting
\* the verbatim extraction on line breaks gives end_line - start_line + 1
\* elements, the first being the first line's suffix from start_col and the
\* last being the last line's prefix up to (excluding) end_col.
C15_VerbatimEndsWithinText ==
    (Extracted /\ MultiLineSpan /\ ColumnsWithinText) =>
        /\ Len(VerbatimPieces) = end_line - start_line + 1
        /\ VerbatimPieces[1] = FirstLineSuffix
        /\ VerbatimPieces[Len(VerbatimPieces)] = LastLinePrefix

\* lines "The quick brown fox", "ab" with span (1,5,2,3): end_col is one
\* past "ab"; the pieces are "quick brown fox" and "ab"
C15_Witness ==
    /\ Extracted
    /\ span = <<1, 5, 2, 3>>
    /\ Len(original_lines) = 2
    /\ RStripLine(original_lines[1]) = TheQuickBrownFox
    /\ RStripLine(original_lines[2]) = <<"a", "b">>
    /\ Len(VerbatimPieces) = 2
    /\ VerbatimPieces[1] = Columns(TheQuickBrownFox, 5, 20)
    /\ VerbatimPieces[2] = <<"a", "b">>

----------------------------------------------------------------------------
(* Sentence alignment: normalisation and the similarity ratio *)

\* most sentences in an enumerated segmentation
MaxSentences == 2

\* text.split(): the maximal runs of non-whitespace characters, in order
RECURSIVE SplitFrom(_, _)
SplitFrom(s, word) ==
    IF s = <<>> THEN (IF word = <<>> THEN <<>> ELSE <<word>>)
    ELSE IF s[1] \in Whitespace
         THEN (IF word = <<>> THEN <<>> ELSE <<word>>) \o SplitFrom(Tail(s), <<>>)
         ELSE SplitFrom(Tail(s), Append(word, s[1]))

PySplit(s) == SplitFrom(s, <<>>)

\* normalize_for_comparison / normalize_text: ' '.join(text.split()).strip()
normalize_for_comparison(text) == PyStrip(PyJoin(<<" ">>, PySplit(text)))

\* ' '.join(normalize_for_comparison(s) for s in sentences)
JoinNormalized(sentences) ==
    PyJoin(<<" ">>, [k \in 1..Len(sentences) |-> normalize_for_comparison(sentences[k])])

\* length of the longest common run of a[i:ahi] and b[j:bhi] starting at i, j
\* (0-based, upper ends excluded)
RECURSIVE CommonRun(_, _, _, _, _, _)
CommonRun(a, b, i, j, ahi, bhi) ==
    IF i >= ahi \/ j >= bhi THEN 0
    ELSE IF a[i + 1] # b[j + 1] THEN 0
    ELSE 1 + CommonRun(a, b, i + 1, j + 1, ahi, bhi)

\* difflib.SequenceMatcher.find_longest_match without junk: the longest block
\* <<i, j, k>> with a[i:i+k] = b[j:j+k] inside the two ranges; of the longest,
\* the one that starts earliest in a, and of those the earliest in b
find_longest_match(a, b, alo, ahi, blo, bhi) ==
    LET blocks == {<<i, j, CommonRun(a, b, i, j, ahi, bhi)>> :
                       i \in alo..(ahi - 1), j \in blo..(bhi - 1)}
        Better(m, o) == \/ m[3] > o[3]
                        \/ m[3] = o[3] /\ m[1] < o[1]
                        \/ m[3] = o[3] /\ m[1] = o[1] /\ m[2] <= o[2]
    IN  IF blocks = {} THEN <<alo, blo, 0>>
        ELSE CHOOSE m \in blocks : \A o \in blocks : Better(m, o)

\* difflib.SequenceMatcher.get_matching_blocks, summed: the number of
\* characters matched by the longest block and, recursively, by the pieces to
\* its left and to its right
RECURSIVE MatchedChars(_, _, _, _, _, _)
MatchedChars(a, b, alo, ahi, blo, bhi) ==
    IF alo >= ahi \/ blo >= bhi THEN 0
    ELSE LET m == find_longest_match(a, b, alo, ahi, blo, bhi)
         IN  IF m[3] = 0 THEN 0
             ELSE m[3]
                  + MatchedChars(a, b, alo, m[1], blo, m[2])
                  + MatchedChars(a, b, m[1] + m[3], ahi, m[2] + m[3], bhi)

\* SequenceMatcher(None, a, b).ratio() = 2.0 * matches / (len(a) + len(b)),
\* and 1.0 for two empty strings, compared with the fraction num/den:
\* ratio >= num/den
RatioAtLeast(a, b, num, den) ==
    LET total == Len(a) + Len(b)
    IN  IF total = 0 THEN den >= num
        ELSE 2 * MatchedChars(a, b, 0, Len(a), 0, Len(b)) * den >= num * total

\* ratio > num/den
RatioAbove(a, b, num, den) ==
    LET total == Len(a) + Len(b)
    IN  IF total = 0 THEN den > num
        ELSE 2 * MatchedChars(a, b, 0, Len(a), 0, Len(b)) * den > num * total

\* the default threshold of sentences_are_similar, 0.9, as a fraction
ThresholdNum == 9
ThresholdDen == 10

\* a comparison that forgets the sentence counts and looks at the text only
sentences_are_similar_text_only(seams, other) ==
    RatioAtLeast(JoinNormalized(seams), JoinNormalized(other), ThresholdNum, ThresholdDen)

\* a comparison that accepts only a ratio strictly above the threshold
sentences_are_similar_strict(seams, other) ==
    /\ Len(seams) = Len(other)
    /\ RatioAbove(JoinNormalized(seams), JoinNormalized(other), ThresholdNum, ThresholdDen)

\* a comparison that normalizes the primary side only
sentences_are_similar_one_sided(seams, other) ==
    /\ Len(seams) = Len(other)
    /\ RatioAtLeast(JoinNormalized(seams), PyJoin(<<" ">>, other), ThresholdNum, ThresholdDen)

\* build_seams_disagreement_set.sentences_are_similar, threshold 0.9
sentences_are_similar(seams, other) ==
    IF Len(seams) # Len(other) THEN FALSE
    ELSE RatioAtLeast(JoinNormalized(seams), JoinNormalized(other), ThresholdNum, ThresholdDen)

\* find_seams_differences.segmentations_differ
segmentations_differ(seams, other) ==
    IF Len(seams) # Len(other) THEN TRUE
    ELSE JoinNormalized(seams) # JoinNormalized(other)

----------------------------------------------------------------------------
(* Inputs of the alignment model *)

A10  == <<"a","a","a","a","a","a","a","a","a","a">>
A9B  == <<"a","a","a","a","a","a","a","a","a","b">>
A8BB == <<"a","a","a","a","a","a","a","a","b","b">>

\* short sentences; the last one differs from "a b" in whitespace only
ShortTexts == {<<"a">>, <<"b">>, <<"a", " ", "b">>, <<" ", "a", " ", " ", "b">>}

\* one-sentence segmentations whose texts are close but not equal:
\* ratio(A10, A9B) = ratio(A9B, A8BB) = 0.9 and ratio(A10, A8BB) = 0.8
LongLists == {<<A10>>, <<A9B>>, <<A8BB>>}

SentenceLists == SeqsUpTo(ShortTexts, MaxSentences) \cup LongLists

InitEquiv ==
    /\ seams_sentences \in SentenceLists
    /\ pysbd_sentences \in SentenceLists
    /\ nupunkt_sentences = <<>>
    /\ similar = FALSE
    /\ differ = FALSE
    /\ disagreement_type = "none"
    /\ boundary_type = "none"
    /\ cpc = "start"
    /\ OutsideAlignIdle

\* build_seams_disagreement_set compares the two segmentations
CheckSimilar ==
    /\ cpc = "start"
    /\ similar' = sentences_are_similar(seams_sentences, pysbd_sentences)
    /\ cpc' = "similar"
    /\ UNCHANGED <<seams_sentences, pysbd_sentences, nupunkt_sentences, differ,
                   disagreement_type, boundary_type>>
    /\ UNCHANGED outsideAlign

\* find_seams_differences compares the same two segmentations
CheckDiffer ==
    /\ cpc = "similar"
    /\ differ' = segmentations_differ(seams_sentences, pysbd_sentences)
    /\ cpc' = "compared"
    /\ UNCHANGED <<seams_sentences, pysbd_sentences, nupunkt_sentences, similar,
                   disagreement_type, boundary_type>>
    /\ UNCHANGED outsideAlign

NextEquiv ==
    \/ CheckSimilar
    \/ CheckDiffer

SpecEquiv == InitEquiv /\ [][NextEquiv]_vars

----------------------------------------------------------------------------
(* Claims about equivalence *)

Compared == cpc = "compared"

SameCount == Len(seams_sentences) = Len(pysbd_sentences)

SameNormalizedText == JoinNormalized(seams_sentences) = JoinNormalized(pysbd_sentences)

\* C3: segmentations with different sentence counts are never equivalent:
\* sentences_are_similar reports FALSE and segmentations_differ TRUE, also
\* when the normalized concatenated texts are identical.
C3_CountMismatchDecides ==
    (Compared /\ ~SameCount) => (similar = FALSE /\ differ = TRUE)

\* different counts, identical normalized text: ["a b"] against ["a", "b"]
C3_Witness ==
    /\ Compared
    /\ ~SameCount
    /\ SameNormalizedText
    /\ similar = FALSE
    /\ differ = TRUE

\* the ratio of the two normalized texts reaches 0.9
RatioReachesThreshold ==
    RatioAtLeast(JoinNormalized(seams_sentences), JoinNormalized(pysbd_sentences),
                 ThresholdNum, ThresholdDen)

\* C4 as stated: with equal counts, both scripts judge the segmentations
\* equivalent exactly when the ratio of the normalized texts is >= 0.9.
C4_EqualCountIffRatio ==
    (Compared /\ SameCount) =>
        /\ similar = RatioReachesThreshold
        /\ differ = ~RatioReachesThreshold

\* C4 amended: with equal counts, sentences_are_similar judges the
\* segmentations equivalent exactly when the ratio of the normalized texts is
\* >= 0.9, and segmentations_differ judges them different exactly when the
\* normalized texts are not equal (so it can report a difference at a ratio
\* >= 0.9).
C4_EqualCountPerScript ==
    (Compared /\ SameCount) =>
        /\ similar = RatioReachesThreshold
        /\ differ = ~SameNormalizedText

\* equal counts, ratio 0.9, texts not equal: similar, and yet reported different
C4_Witness ==
    /\ Compared
    /\ SameCount
    /\ ~SameNormalizedText
    /\ RatioReachesThreshold
    /\ similar = TRUE
    /\ differ = TRUE

\* C5: every non-empty segmentation is equivalent to itself.
C5_Reflexive ==
    (Compared /\ seams_sentences # <<>> /\ pysbd_sentences = seams_sentences) =>
        similar = TRUE

C5_Witness ==
    /\ Compared
    /\ Len(seams_sentences) = 2
    /\ pysbd_sentences = seams_sentences
    /\ similar = TRUE

----------------------------------------------------------------------------
(* Disagreement classification *)

\* a three-way classifier that reports seams_vs_both without asking whether
\* the two references agree with each other
classify_disagreement_ignoring_references(seams, pysbd, nupunkt) ==
    LET seams_vs_pysbd   == ~sentences_are_similar(seams, pysbd)
        seams_vs_nupunkt == ~sentences_are_similar(seams, nupunkt)
    IN  IF seams_vs_pysbd /\ seams_vs_nupunkt THEN "seams_vs_both"
        ELSE IF seams_vs_pysbd /\ ~seams_vs_nupunkt THEN "seams_vs_pysbd"
        ELSE IF seams_vs_nupunkt /\ ~seams_vs_pysbd THEN "seams_vs_nupunkt"
        ELSE "no_disagreement"

\* a three-way classifier that names the wrong reference
classify_disagreement_swapped(seams, pysbd, nupunkt) ==
    LET seams_vs_pysbd   == ~sentences_are_similar(seams, pysbd)
        seams_vs_nupunkt == ~sentences_are_similar(seams, nupunkt)
        pysbd_vs_nupunkt == ~sentences_are_similar(pysbd, nupunkt)
    IN  IF seams_vs_pysbd /\ seams_vs_nupunkt /\ ~pysbd_vs_nupunkt THEN "seams_vs_both"
        ELSE IF seams_vs_pysbd /\ ~seams_vs_nupunkt THEN "seams_vs_nupunkt"
        ELSE IF seams_vs_nupunkt /\ ~seams_vs_pysbd THEN "seams_vs_pysbd"
        ELSE IF seams_vs_pysbd /\ seams_vs_nupunkt /\ pysbd_vs_nupunkt THEN "all_disagree"
        ELSE "no_disagreement"

\* a three-way classifier that reports seams_vs_both whatever it is given
classify_disagreement_always_both(seams, pysbd, nupunkt) == "seams_vs_both"

\* a three-way classifier whose last branch asks that the two references
\* agree with each other
classify_disagreement_asking_references(seams, pysbd, nupunkt) ==
    LET seams_vs_pysbd   == ~sentences_are_similar(seams, pysbd)
        seams_vs_nupunkt == ~sentences_are_similar(seams, nupunkt)
        pysbd_vs_nupunkt == ~sentences_are_similar(pysbd, nupunkt)
    IN  IF seams_vs_pysbd /\ seams_vs_nupunkt /\ ~pysbd_vs_nupunkt THEN "seams_vs_both"
        ELSE IF seams_vs_pysbd /\ ~seams_vs_nupunkt THEN "seams_vs_pysbd"
        ELSE IF seams_vs_nupunkt /\ ~seams_vs_pysbd THEN "seams_vs_nupunkt"
        ELSE IF pysbd_vs_nupunkt THEN "all_disagree"
        ELSE "no_disagreement"

\* build_seams_disagreement_set.classify_disagreement (three-way)
classify_disagreement(seams, pysbd, nupunkt) ==
    LET seams_vs_pysbd   == ~sentences_are_similar(seams, pysbd)
        seams_vs_nupunkt == ~sentences_are_similar(seams, nupunkt)
        pysbd_vs_nupunkt == ~sentences_are_similar(pysbd, nupunkt)
    IN  IF seams_vs_pysbd /\ seams_vs_nupunkt /\ ~pysbd_vs_nupunkt THEN "seams_vs_both"
        ELSE IF seams_vs_pysbd /\ ~seams_vs_nupunkt THEN "seams_vs_pysbd"
        ELSE IF seams_vs_nupunkt /\ ~seams_vs_pysbd THEN "seams_vs_nupunkt"
        ELSE IF seams_vs_pysbd /\ seams_vs_nupunkt /\ pysbd_vs_nupunkt THEN "all_disagree"
        ELSE "no_disagreement"

\* a two-way classifier with the two comparisons the wrong way round
boundary_classify_disagreement_reversed(seams, comparison) ==
    LET seams_count      == Len(seams)
        comparison_count == Len(comparison)
    IN  IF comparison_count < seams_count THEN "over_split"
        ELSE IF comparison_count > seams_count THEN "under_split"
        ELSE "different_boundaries"

\* a two-way classifier that reports no_disagreement for equal counts and
\* similar text
boundary_classify_disagreement_with_agreement(seams, comparison) ==
    LET seams_count      == Len(seams)
        comparison_count == Len(comparison)
    IN  IF comparison_count > seams_count THEN "over_split"
        ELSE IF comparison_count < seams_count THEN "under_split"
        ELSE IF sentences_are_similar(seams, comparison) THEN "no_disagreement"
        ELSE "different_boundaries"

\* BoundaryGoldSetBuilder.classify_disagreement (two-way)
boundary_classify_disagreement(seams, comparison) ==
    LET seams_count      == Len(seams)
        comparison_count == Len(comparison)
    IN  IF comparison_count > seams_count THEN "over_split"
        ELSE IF comparison_count < seams_count THEN "under_split"
        ELSE "different_boundaries"

----------------------------------------------------------------------------
(* Inputs of the classification model *)

ClassifyTexts == {<<"a">>, <<"a", " ", "b">>}

ClassifyLists == SeqsUpTo(ClassifyTexts, MaxSentences) \cup LongLists

InitClassify ==
    /\ seams_sentences \in ClassifyLists
    /\ pysbd_sentences \in ClassifyLists
    /\ nupunkt_sentences \in ClassifyLists
    /\ similar = FALSE
    /\ differ = FALSE
    /\ disagreement_type = "none"
    /\ boundary_type = "none"
    /\ cpc = "start"
    /\ OutsideAlignIdle

\* the primary against two references
ClassifyThreeWay ==
    /\ cpc = "start"
    /\ disagreement_type' =
           classify_disagreement(seams_sentences, pysbd_sentences, nupunkt_sentences)
    /\ cpc' = "three_way"
    /\ UNCHANGED <<seams_sentences, pysbd_sentences, nupunkt_sentences, similar, differ,
                   boundary_type>>
    /\ UNCHANGED outsideAlign

\* the primary against one compared method (here the first reference)
ClassifyTwoWay ==
    /\ cpc = "three_way"
    /\ boundary_type' = boundary_classify_disagreement(seams_sentences, pysbd_sentences)
    /\ cpc' = "classified"
    /\ UNCHANGED <<seams_sentences, pysbd_sentences, nupunkt_sentences, similar, differ,
                   disagreement_type>>
    /\ UNCHANGED outsideAlign

NextClassify ==
    \/ ClassifyThreeWay
    \/ ClassifyTwoWay

SpecClassify == InitClassify /\ [][NextClassify]_vars

----------------------------------------------------------------------------
(* Claims about classification *)

Classified == cpc = "classified"

PrimaryAgreesA == sentences_are_similar(seams_sentences, pysbd_sentences)
PrimaryAgreesB == sentences_are_similar(seams_sentences, nupunkt_sentences)
ReferencesAgree == sentences_are_similar(pysbd_sentences, nupunkt_sentences)

\* C6: the three-way verdict is seams_vs_both exactly when the two references
\* are equivalent to each other and the primary is equivalent to neither.
C6_PrimaryVsBoth ==
    Classified =>
        ((disagreement_type = "seams_vs_both")
            <=> (ReferencesAgree /\ ~PrimaryAgreesA /\ ~PrimaryAgreesB))

C6_Witness ==
    /\ Classified
    /\ ReferencesAgree /\ ~PrimaryAgreesA /\ ~PrimaryAgreesB
    /\ Len(pysbd_sentences) = Len(seams_sentences)
    /\ pysbd_sentences # nupunkt_sentences
    /\ disagreement_type = "seams_vs_both"

Verdicts ==
    {"seams_vs_both", "seams_vs_pysbd", "seams_vs_nupunkt", "all_disagree", "no_disagreement"}

\* C7: the verdict is seams_vs_pysbd (seams_vs_nupunkt) exactly when the
\* primary is not equivalent to that reference and equivalent to the other;
\* all_disagree exactly when no pair is equivalent; no_disagreement when all
\* three pairs are equivalent; and it is always one of the five verdicts.
C7_OtherVerdicts ==
    Classified =>
        /\ (disagreement_type = "seams_vs_pysbd") <=> (~PrimaryAgreesA /\ PrimaryAgreesB)
        /\ (disagreement_type = "seams_vs_nupunkt") <=> (~PrimaryAgreesB /\ PrimaryAgreesA)
        /\ (disagreement_type = "all_disagree")
               <=> (~PrimaryAgreesA /\ ~PrimaryAgreesB /\ ~ReferencesAgree)
        /\ (PrimaryAgreesA /\ PrimaryAgreesB /\ ReferencesAgree)
               => disagreement_type = "no_disagreement"
        /\ disagreement_type \in Verdicts

\* the primary differs from the first reference only, the references agree
C7_Witness ==
    /\ Classified
    /\ ~PrimaryAgreesA /\ PrimaryAgreesB /\ ReferencesAgree
    /\ disagreement_type = "seams_vs_pysbd"

\* C8: the two-way verdict is over_split exactly when the compared method has
\* more sentences than the primary and the two are not equivalent, and
\* under_split exactly when it has fewer and the two are not equivalent.
C8_OverUnderSplit ==
    Classified =>
        /\ (boundary_type = "over_split")
               <=> (Len(pysbd_sentences) > Len(seams_sentences) /\ ~PrimaryAgreesA)
        /\ (boundary_type = "under_split")
               <=> (Len(pysbd_sentences) < Len(seams_sentences) /\ ~PrimaryAgreesA)

\* a 2-sentence primary against a 1-sentence reference is under_split
C8_Witness ==
    /\ Classified
    /\ Len(seams_sentences) = 2
    /\ Len(pysbd_sentences) = 1
    /\ boundary_type = "under_split"

\* C9 as stated: with equal counts the two-way verdict is
\* different_boundaries when the segmentations are not equivalent and
\* no_disagreement when they are.
C9_EqualCountVerdict ==
    (Classified /\ Len(pysbd_sentences) = Len(seams_sentences)) =>
        /\ ~PrimaryAgreesA => boundary_type = "different_boundaries"
        /\ PrimaryAgreesA => boundary_type = "no_disagreement"

\* C9 amended: with equal counts the two-way verdict is different_boundaries
\* whether or not the segmentations are equivalent (classify(a, a) included);
\* the two-way classifier never returns no_disagreement.
C9_EqualCountAlwaysDifferent ==
    Classified =>
        /\ Len(pysbd_sentences) = Len(seams_sentences)
               => boundary_type = "different_boundaries"
        /\ boundary_type # "no_disagreement"

\* classify(a, a) for a non-empty a
C9_Witness ==
    /\ Classified
    /\ seams_sentences # <<>>
    /\ pysbd_sentences = seams_sentences
    /\ boundary_type = "different_boundaries"


\* C26: the three-way verdict is no_disagreement exactly when the primary
\* segmentation is equivalent to both reference segmentations, whether or
\* not the two references are equivalent to each other.
C26_NoDisagreementIffPrimaryAgrees ==
    Classified =>
        ((disagreement_type = "no_disagreement") <=> (PrimaryAgreesA /\ PrimaryAgreesB))

\* no_disagreement for a primary that lies between two references which
\* are not equivalent to each other
C26_Witness ==
    /\ Classified
    /\ seams_sentences = <<A9B>>
    /\ pysbd_sentences = <<A10>>
    /\ nupunkt_sentences = <<A8BB>>
    /\ PrimaryAgreesA /\ PrimaryAgreesB /\ ~ReferencesAgree
    /\ disagreement_type = "no_disagreement"

----------------------------------------------------------------------------
(* Stratified sampling *)

\* most candidate records of a run
MaxCand == 3
\* largest target size of a run
MaxTarget == 3

\* the elements of a sequence
Range(seq) == {seq[k] : k \in 1..Len(seq)}

\* the positions p..Len(examples) whose record is one of kept, in order
RECURSIVE PositionsFrom(_, _, _)
PositionsFrom(examples, kept, p) ==
    IF p > Len(examples) THEN <<>>
    ELSE (IF examples[p] \in kept THEN <<p>> ELSE <<>>) \o PositionsFrom(examples, kept, p + 1)

\* examples_by_type[key] / examples_by_complexity[key]: the positions of the
\* records of one category, in the order they were appended
CategoryPositions(examples, key) ==
    PositionsFrom(examples, {ex \in Range(examples) : ex.key = key}, 1)

\* the keys of examples_by_type, in dict (first insertion) order
RECURSIVE InsertionOrder(_, _)
InsertionOrder(examples, seen) ==
    IF examples = <<>> THEN <<>>
    ELSE IF examples[1].key \in seen THEN InsertionOrder(Tail(examples), seen)
    ELSE <<examples[1].key>> \o InsertionOrder(Tail(examples), seen \cup {examples[1].key})

\* build_gold_set: target_distribution, in dict order, ratios in tenths
GoldCategories == <<"dialog", "normal", "complex", "abbreviation">>

GoldTenths == [c \in Range(GoldCategories) |->
                 CASE c = "dialog" -> 3
                   [] c = "normal" -> 4
                   [] c = "complex" -> 2
                   [] c = "abbreviation" -> 1]

\* the categories the per-category loop of a builder walks, in order
Categories(b, examples) ==
    IF b = "gold" THEN GoldCategories ELSE InsertionOrder(examples, {})

\* build_boundary_gold_set: min(len(examples), target_size // len(examples_by_type))
\* build_gold_set: int(target_size * ratio), which equals the floor of
\* target_size * tenths / 10 for the target sizes the model covers
CategoryQuota(b, examples, target, key) ==
    IF b = "gold" THEN (target * GoldTenths[key]) \div 10
    ELSE Min(Len(CategoryPositions(examples, key)),
             target \div Len(InsertionOrder(examples, {})))

\* random.sample(population, k): any k distinct elements, in any order
Samples(population, k) ==
    {pick \in [1..k -> Range(population)] :
        \A i, j \in 1..k : i # j => pick[i] # pick[j]}

\* random.shuffle(x): any order of the same elements
Shuffles(x) == Samples(x, Len(x))

\* what one pass of the per-category loop can append to selected_examples
CategoryPicks(b, examples, target, key) ==
    LET available == CategoryPositions(examples, key)
        quota     == CategoryQuota(b, examples, target, key)
    IN  IF b = "gold"
        THEN IF Len(available) > quota THEN Samples(available, quota) ELSE {available}
        ELSE Samples(available, Min(quota, Len(available)))

\* [ex for ex in all_examples if ex not in selected_examples]: "not in"
\* compares the records field by field (dataclass equality)
Remaining(examples, selected) ==
    LET chosen == {examples[q] : q \in Range(selected)}
    IN  PositionsFrom(examples, Range(examples) \ chosen, 1)

----------------------------------------------------------------------------
(* Inputs of the sampling model *)

\* candidate records: the stratification key and the rest of the fields
CandRecords ==
    { [key |-> "normal", val |-> "x"],
      [key |-> "normal", val |-> "y"],
      [key |-> "dialog", val |-> "x"] }

InitSample ==
    /\ builder \in {"boundary", "gold"}
    /\ all_examples \in SeqsUpTo(CandRecords, MaxCand)
    /\ target_size \in 0..MaxTarget
    /\ category_idx = 0
    /\ selected_examples = <<>>
    /\ result = <<>>
    /\ spc = "categories"
    /\ OutsideSampleIdle

\* one pass of "for category, examples in examples_by_type.items()" /
\* "for complexity, ratio in target_distribution.items()"
SampleCategory ==
    /\ spc = "categories"
    /\ category_idx < Len(Categories(builder, all_examples))
    /\ \E pick \in CategoryPicks(builder, all_examples, target_size,
                                 Categories(builder, all_examples)[category_idx + 1]) :
           selected_examples' = selected_examples \o pick
    /\ category_idx' = category_idx + 1
    /\ UNCHANGED <<builder, all_examples, target_size, result, spc>>
    /\ UNCHANGED outsideSample

\* the fill-up draws from the unselected remainder
NeedsTopUp ==
    /\ Len(selected_examples) < target_size
    /\ Remaining(all_examples, selected_examples) # <<>>

TopUp ==
    /\ spc = "categories"
    /\ category_idx = Len(Categories(builder, all_examples))
    /\ NeedsTopUp
    /\ LET remaining         == Remaining(all_examples, selected_examples)
           additional_needed == target_size - Len(selected_examples)
       IN  \E additional \in Samples(remaining, Min(additional_needed, Len(remaining))) :
               selected_examples' = selected_examples \o additional
    /\ spc' = "shuffle"
    /\ UNCHANGED <<builder, all_examples, target_size, category_idx, result>>
    /\ UNCHANGED outsideSample

\* nothing to fill up, or nothing left to fill up from
SkipTopUp ==
    /\ spc = "categories"
    /\ category_idx = Len(Categories(builder, all_examples))
    /\ ~NeedsTopUp
    /\ spc' = "shuffle"
    /\ UNCHANGED <<builder, all_examples, target_size, category_idx, selected_examples, result>>
    /\ UNCHANGED outsideSample

\* random.shuffle(selected_examples); return selected_examples[:target_size]
ShuffleAndReturn ==
    /\ spc = "shuffle"
    /\ \E shuffled \in Shuffles(selected_examples) :
           result' = PySliceTo(shuffled, target_size)
    /\ spc' = "done"
    /\ UNCHANGED <<builder, all_examples, target_size, category_idx, selected_examples>>
    /\ UNCHANGED outsideSample

NextSample ==
    \/ SampleCategory
    \/ TopUp
    \/ SkipTopUp
    \/ ShuffleAndReturn

SpecSample == InitSample /\ [][NextSample]_vars

----------------------------------------------------------------------------
(* Claims about sampling *)

NoPositionTwice(seq) == \A i, j \in 1..Len(seq) : i # j => seq[i] # seq[j]

\* C10 as stated: the sampler returns exactly min(N, number of candidates)
\* examples and selects no candidate record more than once, whatever the
\* per-category quota and also when candidate records have identical fields.
C10_SizeAndUniqueness ==
    (spc = "done") =>
        /\ Len(result) = Min(target_size, Len(all_examples))
        /\ NoPositionTwice(result)

----------------------------------------------------------------------------
(* Parsing tagged-sentence files *)

MaxFileLines == 3

IsDigit(c) == c \in {"0", "1", "2", "3", "4", "5", "6", "7", "8", "9"}

DigitValue(c) ==
    CASE c = "0" -> 0 [] c = "1" -> 1 [] c = "2" -> 2 [] c = "3" -> 3 [] c = "4" -> 4
      [] c = "5" -> 5 [] c = "6" -> 6 [] c = "7" -> 7 [] c = "8" -> 8 [] c = "9" -> 9

\* the position just after the longest run of digits that starts at p
DigitsEnd(s, p) ==
    LET RECURSIVE Go(_)
        Go(k) == IF k <= Len(s) /\ IsDigit(s[k]) THEN Go(k + 1) ELSE k
    IN  Go(p)

\* int() of the digits s[p..q-1]
PyInt(s, p, q) ==
    LET RECURSIVE Go(_, _)
        Go(k, acc) == IF k >= q THEN acc ELSE Go(k + 1, 10 * acc + DigitValue(s[k]))
    IN  Go(p, 0)

\* the pattern \((\d+),(\d+),(\d+),(\d+)\) tried at position p: the four
\* numbers, or <<>> when it does not match there
MatchCoordinatesAt(s, p) ==
    LET Is(k, c) == k <= Len(s) /\ s[k] = c
        e1 == DigitsEnd(s, p + 1)
        e2 == DigitsEnd(s, e1 + 1)
        e3 == DigitsEnd(s, e2 + 1)
        e4 == DigitsEnd(s, e3 + 1)
    IN  IF /\ p >= 1 /\ Is(p, "(")
           /\ e1 > p + 1 /\ Is(e1, ",")
           /\ e2 > e1 + 1 /\ Is(e2, ",")
           /\ e3 > e2 + 1 /\ Is(e3, ",")
           /\ e4 > e3 + 1 /\ Is(e4, ")")
        THEN <<PyInt(s, p + 1, e1), PyInt(s, e1 + 1, e2), PyInt(s, e2 + 1, e3), PyInt(s, e3 + 1, e4)>>
        ELSE <<>>

\* re.match: the pattern must match at the start of the field
CoordinatesMatch(s) == MatchCoordinatesAt(s, 1)

\* re.search: the leftmost position where the pattern matches
CoordinatesSearch(s) ==
    LET hits == {p \in 1..Len(s) : MatchCoordinatesAt(s, p) # <<>>}
    IN  IF hits = {} THEN <<>>
        ELSE MatchCoordinatesAt(s, CHOOSE p \in hits : \A r \in hits : p <= r)

StartsWith(s, c) == Len(s) >= 1 /\ s[1] = c

\* coordinates given to a record that has none
DummyCoordinate == 0 - 1

\* a parser that turns a damaged coordinate tuple into a record without
\* coordinates instead of passing over the line
parse_line_keeping_damaged(line_in) ==
    LET line  == PyStrip(line_in)
        parts == SplitOn(line, "\t")
    IN  IF line = <<>> \/ StartsWith(line, "#") THEN <<>>
        ELSE IF Len(parts) >= 3
             THEN LET coord_match == CoordinatesSearch(parts[3])
                  IN  IF coord_match # <<>>
                      THEN <<<<PyStrip(parts[2])>> \o coord_match>>
                      ELSE <<<<PyStrip(parts[2]), DummyCoordinate, DummyCoordinate,
                               DummyCoordinate, DummyCoordinate>>>>
             ELSE <<>>

\* one iteration of parse_seams_file (find_seams_differences and
\* build_seams_disagreement_set): the records the line adds
parse_seams_file(line_in) ==
    LET line  == PyStrip(line_in)
        parts == SplitOn(line, "\t")
    IN  IF line = <<>> THEN <<>>
        ELSE IF Len(parts) >= 3
             THEN LET coord_match == CoordinatesMatch(parts[3])
                  IN  IF coord_match # <<>> THEN <<<<parts[2]>> \o coord_match>> ELSE <<>>
             ELSE <<>>

\* one iteration of GoldSetBuilder.parse_sentences_with_coordinates
parse_sentences_with_coordinates(line_in) ==
    LET line  == PyStrip(line_in)
        parts == SplitOn(line, "\t")
    IN  IF line = <<>> \/ StartsWith(line, "#") THEN <<>>
        ELSE IF Len(parts) >= 3
             THEN LET coord_match == CoordinatesSearch(parts[3])
                  IN  IF coord_match # <<>>
                      THEN <<<<PyStrip(parts[2])>> \o coord_match>>
                      ELSE <<>>
             ELSE IF Len(parts) >= 2
                  THEN <<<<PyStrip(parts[2]), DummyCoordinate, DummyCoordinate,
                           DummyCoordinate, DummyCoordinate>>>>
                  ELSE <<>>

\* one iteration of BoundaryGoldSetBuilder.parse_seams_with_coordinates
parse_seams_with_coordinates(line_in) ==
    LET line  == PyStrip(line_in)
        parts == SplitOn(line, "\t")
    IN  IF line = <<>> \/ StartsWith(line, "#") THEN <<>>
        ELSE IF Len(parts) >= 3
             THEN LET coord_match == CoordinatesSearch(parts[3])
                  IN  IF coord_match # <<>>
                      THEN <<<<PyStrip(parts[2])>> \o coord_match>>
                      ELSE <<>>
             ELSE <<>>

\* one iteration of BoundaryGoldSetBuilder.parse_comparison_sentences
parse_comparison_sentences(line_in) ==
    LET line  == PyStrip(line_in)
        parts == SplitOn(line, "\t")
    IN  IF line = <<>> \/ StartsWith(line, "#") THEN <<>>
        ELSE IF Len(parts) >= 2 THEN <<PyStrip(parts[2])>> ELSE <<>>

----------------------------------------------------------------------------
(* Inputs of the parsing model *)

\* a record on line 1, columns 1..3
RecordLine ==
    <<"1", "\t", "a", "b", "\t", "(", "1", ",", "1", ",", "1", ",", "3", ")", "\n">>

\* a record with a two-digit column
SecondRecordLine ==
    <<"2", "\t", "c", "\t", "(", "2", ",", "1", ",", "2", ",", "1", "2", ")", "\n">>

\* a comment that has three fields and well-formed coordinates
CommentLine ==
    <<"#", "1", "\t", "a", "b", "\t", "(", "1", ",", "1", ",", "1", ",", "3", ")", "\n">>

\* an empty line
BlankLine ==
    <<"\n">>

\* a line of white space
SpacesLine ==
    <<" ", "\n">>

\* an id and a text, no coordinates
TwoFieldLine ==
    <<"3", "\t", "d", "\n">>

\* three fields, the coordinate tuple cut short
BadCoordinateLine ==
    <<"4", "\t", "e", "\t", "(", "1", ",", "1", ",", "1", "\n">>

\* no tab at all
OneFieldLine ==
    <<"j", "u", "n", "k", "\n">>

\* the tuple is not at the start of its field
PrefixedCoordinateLine ==
    <<"5", "\t", "f", "\t", "x", "(", "1", ",", "1", ",", "1", ",", "3", ")", "\n">>

FileLineChoices ==
    {RecordLine, SecondRecordLine, CommentLine, BlankLine,
     SpacesLine, TwoFieldLine, BadCoordinateLine, OneFieldLine, PrefixedCoordinateLine}

Parsers ==
    {"parse_seams_file", "parse_sentences_with_coordinates",
     "parse_seams_with_coordinates", "parse_comparison_sentences"}

InitParse ==
    /\ parser \in Parsers
    /\ file_lines \in SeqsUpTo(FileLineChoices, MaxFileLines)
    /\ line_idx = 0
    /\ sentences_with_coords = <<>>
    /\ parsed = <<>>
    /\ ppc = "reading"
    /\ OutsideParseIdle

\* the loop body for the next line of the file
ParseStep(name, added) ==
    /\ ppc = "reading"
    /\ parser = name
    /\ line_idx < Len(file_lines)
    /\ sentences_with_coords' = sentences_with_coords \o added
    /\ line_idx' = line_idx + 1
    /\ UNCHANGED <<parser, file_lines, parsed, ppc>>
    /\ UNCHANGED outsideParse

ParseSeamsFileLine ==
    ParseStep("parse_seams_file", parse_seams_file(file_lines[line_idx + 1]))

ParseSentencesLine ==
    ParseStep("parse_sentences_with_coordinates",
              parse_sentences_with_coordinates(file_lines[line_idx + 1]))

ParseSeamsWithCoordinatesLine ==
    ParseStep("parse_seams_with_coordinates",
              parse_seams_with_coordinates(file_lines[line_idx + 1]))

ParseComparisonLine ==
    ParseStep("parse_comparison_sentences",
              parse_comparison_sentences(file_lines[line_idx + 1]))

\* the end of the file: the collected list is returned
ReturnParsed ==
    /\ ppc = "reading"
    /\ line_idx = Len(file_lines)
    /\ parsed' = sentences_with_coords
    /\ ppc' = "returned"
    /\ UNCHANGED <<parser, file_lines, line_idx, sentences_with_coords>>
    /\ UNCHANGED outsideParse

NextParse ==
    \/ ParseSeamsFileLine
    \/ ParseSentencesLine
    \/ ParseSeamsWithCoordinatesLine
    \/ ParseComparisonLine
    \/ ReturnParsed

SpecParse == InitParse /\ [][NextParse]_vars

----------------------------------------------------------------------------
(* Claims about parsing *)

\* a blank line, or a line whose first character is '#'
IgnorableLine(line_in) == PyStrip(line_in) = <<>> \/ StartsWith(line_in, "#")

\* C12: every tagged-sentence parser ignores blank lines and lines whose
\* first character is '#': consuming such a line adds no record, even when
\* the '#' line has three tab-separated fields with well-formed coordinates.
C12_CommentsAndBlanksIgnored ==
    [][(line_idx' = line_idx + 1 /\ IgnorableLine(file_lines[line_idx + 1]))
          => sentences_with_coords' = sentences_with_coords]_vars

\* the parsers that read coordinates and pass over '#' lines
CoordinateParsers == {"parse_sentences_with_coordinates", "parse_seams_with_coordinates"}

\* the lines that are records for the parser, and the record each stands for
WellFormedLines ==
    IF parser = "parse_sentences_with_coordinates"
    THEN {RecordLine, SecondRecordLine, TwoFieldLine}
    ELSE {RecordLine, SecondRecordLine}

ExpectedRecord(line_in) ==
    CASE line_in = RecordLine       -> <<<<"a", "b">>, 1, 1, 1, 3>>
      [] line_in = SecondRecordLine -> <<<<"c">>, 2, 1, 2, 12>>
      [] line_in = TwoFieldLine     -> <<<<"d">>, 0 - 1, 0 - 1, 0 - 1, 0 - 1>>

\* wrong field count, or a coordinate tuple that cannot be read
MalformedLines ==
    IF parser = "parse_sentences_with_coordinates"
    THEN {BadCoordinateLine, OneFieldLine}
    ELSE {BadCoordinateLine, OneFieldLine, TwoFieldLine}

\* the records of the well-formed lines of the file, in file order
RECURSIVE ExpectedRecords(_)
ExpectedRecords(lines) ==
    IF lines = <<>> THEN <<>>
    ELSE (IF Head(lines) \in WellFormedLines THEN <<ExpectedRecord(Head(lines))>> ELSE <<>>)
         \o ExpectedRecords(Tail(lines))

\* C13: in a file made of well-formed and malformed records, the parser
\* skips exactly the malformed lines: what it returns is the record of every
\* well-formed line, before and after a malformed one, in file order.
C13_OnlyMalformedSkipped ==
    (/\ ppc = "returned"
     /\ parser \in CoordinateParsers
     /\ \A k \in 1..Len(file_lines) : file_lines[k] \in WellFormedLines \cup MalformedLines)
        => parsed = ExpectedRecords(file_lines)

\* a damaged tuple between two records: both records are returned, in order
C13_Witness ==
    /\ ppc = "returned"
    /\ parser = "parse_seams_with_coordinates"
    /\ file_lines = <<RecordLine, BadCoordinateLine, SecondRecordLine>>
    /\ parsed = <<<<<<"a", "b">>, 1, 1, 1, 3>>, <<<<"c">>, 2, 1, 2, 12>>>>

----------------------------------------------------------------------------
(* Chunking: find_natural_text_boundaries *)

\* sentences in a document of the short inputs
MaxSeams == 3

\* sentences in a document of the long inputs
MaxRun == 12

\* "Limit chunk size": the inner loop stops once i - start_idx reaches it
ChunkLimit == 10

UpperCase ==
    <<"A", "B", "C", "D", "E", "F", "G", "H", "I", "J", "K", "L", "M", "N", "O", "P", "Q", "R", "S", "T", "U", "V", "W", "X", "Y", "Z">>

LowerCase ==
    <<"a", "b", "c", "d", "e", "f", "g", "h", "i", "j", "k", "l", "m", "n", "o", "p", "q", "r", "s", "t", "u", "v", "w", "x", "y", "z">>

\* str.lower()
PyLower(s) ==
    [k \in 1..Len(s) |->
        IF \E u \in 1..Len(UpperCase) : UpperCase[u] = s[k]
        THEN LowerCase[CHOOSE u \in 1..Len(UpperCase) : UpperCase[u] = s[k]]
        ELSE s[k]]

\* str.endswith
EndsWith(s, suffix) ==
    /\ Len(s) >= Len(suffix)
    /\ \A k \in 1..Len(suffix) : s[Len(s) - Len(suffix) + k] = suffix[k]

AttributionVerbs ==
    {<<"s", "a", "i", "d">>,
     <<"a", "s", "k", "e", "d">>,
     <<"r", "e", "p", "l", "i", "e", "d">>,
     <<"s", "h", "o", "u", "t", "e", "d">>,
     <<"w", "h", "i", "s", "p", "e", "r", "e", "d">>}

\* re.search(r'(said|asked|replied|shouted|whispered)[.!?]?\s*$', text):
\* after the trailing white space, and at most one of . ! ? before it, the
\* text ends with one of the verbs
MatchesAttribution(text) ==
    LET t == RStripChars(text, Whitespace)
        EndsWithVerb(x) == \E verb \in AttributionVerbs : EndsWith(x, verb)
    IN  \/ EndsWithVerb(t)
        \/ /\ t # <<>>
           /\ t[Len(t)] \in {".", "!", "?"}
           /\ EndsWithVerb(SubSeq(t, 1, Len(t) - 1))

\* seams_data[k] for a 0-based k
SeamsAt(data, k) == data[k + 1]

\* a chunker that never looks at the line numbers
inner_loop_breaks_ignoring_gaps(data, k, start) ==
    LET current_sentence == SeamsAt(data, k)[1]
        next_sentence    == SeamsAt(data, k + 1)[1]
    IN  \/ MatchesAttribution(PyLower(current_sentence))
        \/ EndsWith(current_sentence, <<"\"">>) /\ ~StartsWith(next_sentence, "\"")
        \/ k - start >= ChunkLimit

\* a chunker without "Limit chunk size"
inner_loop_breaks_uncapped(data, k, start) ==
    LET current_sentence == SeamsAt(data, k)[1]
        next_sentence    == SeamsAt(data, k + 1)[1]
        current_coords   == SeamsAt(data, k)
        next_coords      == SeamsAt(data, k + 1)
    IN  \/ next_coords[2] > current_coords[4] + 1
        \/ MatchesAttribution(PyLower(current_sentence))
        \/ EndsWith(current_sentence, <<"\"">>) /\ ~StartsWith(next_sentence, "\"")

\* the four "break" tests of the inner loop, at index k of a chunk that
\* starts at index start
inner_loop_breaks(data, k, start) ==
    LET current_sentence == SeamsAt(data, k)[1]
        next_sentence    == SeamsAt(data, k + 1)[1]
        current_coords   == SeamsAt(data, k)
        next_coords      == SeamsAt(data, k + 1)
    IN  \/ next_coords[2] > current_coords[4] + 1
        \/ MatchesAttribution(PyLower(current_sentence))
        \/ EndsWith(current_sentence, <<"\"">>) /\ ~StartsWith(next_sentence, "\"")
        \/ k - start >= ChunkLimit

\* a chunker that closes the chunk where the inner loop stopped
include_at_least_one_dropped(k, start) == k

\* a chunker that steps over a sentence when the inner loop made no progress
include_at_least_one_twice(k, start) == IF k = start THEN k + 2 ELSE k

\* "Always include at least one sentence": the index after
\* "if i == start_idx: i += 1"
include_at_least_one(k, start) == IF k = start THEN k + 1 ELSE k

----------------------------------------------------------------------------
(* Inputs of the chunking model *)

\* contains a verb, but not at its end
PlainText == <<"s", "a", "i", "d", " ", "i", "t", ".">>

\* a verb in capitals, a '!' and a trailing blank
SaidText == <<"H", "e", " ", "S", "a", "i", "d", "!", " ">>

WhisperedText == <<"w", "h", "i", "s", "p", "e", "r", "e", "d">>

\* opens and closes with a double quote
QuotedText == <<"\"", "H", "i", "\"">>

\* opens with a double quote and does not close it
OpenQuoteText == <<"\"", "Y", "e", "s">>

SentenceTexts == {PlainText, SaidText, WhisperedText, QuotedText, OpenQuoteText}

\* how many lines after the end of the previous sentence a sentence starts:
\* next line, or one line left blank in between
LineSteps == {1, 2}

\* records for a list of <<text, line step>> pairs; every sentence lies on
\* one line, columns 1..Len+1
RECURSIVE RecordsFrom(_, _)
RecordsFrom(pairs, line) ==
    IF pairs = <<>> THEN <<>>
    ELSE LET at == line + Head(pairs)[2]
         IN  <<<<Head(pairs)[1], at, 1, at, Len(Head(pairs)[1]) + 1>>>>
             \o RecordsFrom(Tail(pairs), at)

ShortDocuments ==
    {RecordsFrom(pairs, 0) : pairs \in SeqsUpTo(SentenceTexts \X LineSteps, MaxSeams)}

\* a run of n plain sentences on consecutive lines, the k-th replaced by
\* text (k = 0: none replaced)
RunWith(n, k, text) ==
    RecordsFrom([j \in 1..n |-> IF j = k THEN <<text, 1>> ELSE <<PlainText, 1>>], 0)

LongDocuments ==
    {RunWith(n, k, text) : n \in (ChunkLimit + 1)..MaxRun, k \in 0..MaxRun,
                           text \in {SaidText, QuotedText}}

InitChunk ==
    /\ seams_data \in ShortDocuments \cup LongDocuments
    /\ chunk_i = 0
    /\ start_idx = 0
    /\ boundaries = <<>>
    /\ kpc = "outer"
    /\ OutsideChunkIdle

\* "while i < len(seams_data): start_idx = i"
StartChunk ==
    /\ kpc = "outer"
    /\ chunk_i < Len(seams_data)
    /\ start_idx' = chunk_i
    /\ kpc' = "inner"
    /\ UNCHANGED <<seams_data, chunk_i, boundaries>>
    /\ UNCHANGED outsideChunk

\* an iteration of the inner loop that reaches "i += 1"
ExtendChunk ==
    /\ kpc = "inner"
    /\ chunk_i < Len(seams_data) - 1
    /\ ~inner_loop_breaks(seams_data, chunk_i, start_idx)
    /\ chunk_i' = chunk_i + 1
    /\ UNCHANGED <<seams_data, start_idx, boundaries, kpc>>
    /\ UNCHANGED outsideChunk

\* the inner loop ends (break, or its condition fails); "if i == start_idx:
\* i += 1" and "boundaries.append((start_idx, i))"
CloseChunk ==
    /\ kpc = "inner"
    /\ IF chunk_i < Len(seams_data) - 1
       THEN inner_loop_breaks(seams_data, chunk_i, start_idx)
       ELSE TRUE
    /\ LET next_i == include_at_least_one(chunk_i, start_idx)
       IN  /\ chunk_i' = next_i
           /\ boundaries' = Append(boundaries, <<start_idx, next_i>>)
    /\ kpc' = "outer"
    /\ UNCHANGED <<seams_data, start_idx>>
    /\ UNCHANGED outsideChunk

\* the outer loop ends: "return boundaries"
ReturnBoundaries ==
    /\ kpc = "outer"
    /\ ~(chunk_i < Len(seams_data))
    /\ kpc' = "done"
    /\ UNCHANGED <<seams_data, chunk_i, start_idx, boundaries>>
    /\ UNCHANGED outsideChunk

NextChunk ==
    \/ StartChunk
    \/ ExtendChunk
    \/ CloseChunk
    \/ ReturnBoundaries

SpecChunk == InitChunk /\ [][NextChunk]_vars

----------------------------------------------------------------------------
(* Claims about chunking *)

\* 0-based indexes of the sentences that have a successor
WithSuccessor == 0..(Len(seams_data) - 2)

\* sentences j and k lie in one chunk
SameChunk(j, k) ==
    \E b \in 1..Len(boundaries) :
        /\ boundaries[b][1] <= j /\ j < boundaries[b][2]
        /\ boundaries[b][1] <= k /\ k < boundaries[b][2]

\* the number of sentences of the chunks that contain sentence j
ChunkSizesOf(j) ==
    {boundaries[b][2] - boundaries[b][1] :
        b \in {c \in 1..Len(boundaries) : boundaries[c][1] <= j /\ j < boundaries[c][2]}}

\* (a) the next sentence starts more than one line after this one ends
LineGapAfter(j) == SeamsAt(seams_data, j + 1)[2] - SeamsAt(seams_data, j)[4] > 1

\* (b) the sentence ends with an attribution verb
EndsWithAttribution(j) == SeamsAt(seams_data, j)[1] \in {SaidText, WhisperedText}

\* (c) the sentence ends with a double quote and the next does not start
\* with one
QuoteThenNarration(j) ==
    /\ SeamsAt(seams_data, j)[1] = QuotedText
    /\ SeamsAt(seams_data, j + 1)[1] \notin {QuotedText, OpenQuoteText}

NaturalBreakAfter(j) == LineGapAfter(j) \/ EndsWithAttribution(j) \/ QuoteThenNarration(j)

\* C19: when find_natural_text_boundaries has returned, every sentence i
\* with a successor for which a line gap, an attribution ending or a closing
\* quote followed by narration holds lies in a chunk, as does sentence i+1,
\* and no chunk contains both.
C19_BreaksSeparate ==
    (kpc = "done") =>
        \A j \in WithSuccessor :
            NaturalBreakAfter(j) =>
                /\ ChunkSizesOf(j) # {}
                /\ ChunkSizesOf(j + 1) # {}
                /\ ~SameChunk(j, j + 1)

\* plain, attribution, plain on consecutive lines: the attribution sentence
\* and its successor end up in different chunks
C19_Witness ==
    /\ kpc = "done"
    /\ Len(seams_data) = 3
    /\ SeamsAt(seams_data, 0)[1] = PlainText
    /\ SeamsAt(seams_data, 1)[1] = SaidText
    /\ SeamsAt(seams_data, 2)[1] = PlainText
    /\ ~LineGapAfter(0) /\ ~LineGapAfter(1)
    /\ ~SameChunk(1, 2)
    /\ ChunkSizesOf(1) # {} /\ ChunkSizesOf(2) # {}

\* C20: when find_natural_text_boundaries has returned, sentences i and i+1
\* lie in different chunks only if a natural break holds for sentence i or
\* the chunk containing i holds ChunkLimit sentences.
C20_BoundariesOnlyAtBreaks ==
    (kpc = "done") =>
        \A j \in WithSuccessor :
            ~SameChunk(j, j + 1) => (NaturalBreakAfter(j) \/ ChunkLimit \in ChunkSizesOf(j))

\* C21: at every moment of find_natural_text_boundaries, every chunk
\* (start_idx, end_idx) appended so far satisfies end_idx - start_idx <=
\* ChunkLimit, whether or not a natural break was found.
C21_ChunksWithinLimit ==
    \A b \in 1..Len(boundaries) : boundaries[b][2] - boundaries[b][1] <= ChunkLimit

\* a run of more than ChunkLimit sentences without any natural break: its
\* first chunk holds exactly ChunkLimit sentences
C21_Witness ==
    /\ kpc = "done"
    /\ Len(seams_data) > ChunkLimit
    /\ \A j \in WithSuccessor : ~NaturalBreakAfter(j)
    /\ boundaries[1] = <<0, ChunkLimit>>

\* the chunks b..Len(boundaries) follow one another and end at index to
ChunksFollow(to) ==
    /\ \A b \in 1..Len(boundaries) : boundaries[b][1] < boundaries[b][2]
    /\ boundaries # <<>> => boundaries[1][1] = 0
    /\ \A b \in 1..(Len(boundaries) - 1) : boundaries[b + 1][1] = boundaries[b][2]
    /\ IF boundaries = <<>> THEN to = 0 ELSE boundaries[Len(boundaries)][2] = to

\* C22: the chunks appended so far are non-empty half-open ranges, the
\* first starts at 0 and each starts where the previous one ended; between
\* two outer iterations they end at the loop index, and when
\* find_natural_text_boundaries has returned they end at len(seams_data),
\* so every sentence lies in exactly one chunk.
C22_OrderedPartition ==
    /\ kpc \in {"outer", "done"} => ChunksFollow(chunk_i)
    /\ kpc = "inner" => ChunksFollow(start_idx)
    /\ kpc = "done" =>
           /\ ChunksFollow(Len(seams_data))
           /\ \A j \in 0..(Len(seams_data) - 1) :
                  Cardinality({b \in 1..Len(boundaries) :
                                  boundaries[b][1] <= j /\ j < boundaries[b][2]}) = 1

\* three sentences in three chunks, the second cut off by a line gap
C22_Witness ==
    /\ kpc = "done"
    /\ Len(seams_data) = 3
    /\ LineGapAfter(0)
    /\ boundaries = <<<<0, 1>>, <<1, 2>>, <<2, 3>>>>

\* the documents of the termination check: sentences that continue a chunk,
\* that end it by an attribution, and that end it by a closing quote, on
\* consecutive lines or after a line gap, and the long runs
InitChunkLive ==
    /\ InitChunk
    /\ \A j \in 1..Len(seams_data) :
           seams_data[j][1] \in {PlainText, SaidText, QuotedText}

\* the program takes its next step whenever it has one
SpecChunkLive == InitChunkLive /\ [][NextChunk]_vars /\ WF_vars(NextChunk)

\* an outer iteration ends with the loop index beyond the chunk's start
IterationAdvances == (kpc = "inner" /\ kpc' = "outer") => chunk_i' > start_idx

\* C23: every outer iteration of find_natural_text_boundaries leaves the
\* loop index at least one beyond where the iteration started, and the
\* function eventually returns.
C23_Terminates == [][IterationAdvances]_vars /\ <>(kpc = "done")

\* the function has returned after an iteration whose inner loop made no
\* progress: the first sentence breaks at once and is a chunk of its own
C23_Witness ==
    /\ kpc = "done"
    /\ Len(seams_data) >= 2
    /\ NaturalBreakAfter(0)
    /\ boundaries[1] = <<0, 1>>

----------------------------------------------------------------------------
(* The overlap test: sentences_overlap *)

\* "x in y" for strings
IsSubstring(x, y) ==
    \E p \in 0..(Len(y) - Len(x)) : \A k \in 1..Len(x) : y[p + k] = x[k]

\* the ratio a candidate must exceed against a reference, 0.7, as a fraction
OverlapRatioNum == 7
OverlapRatioDen == 10

\* only words longer than this count in the word test
MinWordLength == 4

\* the share of such words that must be exceeded, 0.5, as a fraction
WordShareNum == 1
WordShareDen == 2

\* an overlap test without the word test
sentences_overlap_without_words(comparison, references, region) ==
    LET comparison_lower == PyLower(comparison)
        original_lower   == PyLower(region)
    IN  \/ IsSubstring(comparison_lower, original_lower)
        \/ \E k \in 1..Len(references) :
               RatioAbove(comparison_lower, PyLower(references[k]), OverlapRatioNum, OverlapRatioDen)

\* BoundaryGoldSetBuilder.sentences_overlap
sentences_overlap(comparison, references, region) ==
    LET comparison_lower == PyLower(comparison)
        original_lower   == PyLower(region)
        comparison_words == {word \in Range(PySplit(comparison_lower)) : Len(word) > MinWordLength}
        original_words   == Range(PySplit(original_lower))
    IN  \/ IsSubstring(comparison_lower, original_lower)
        \/ \E k \in 1..Len(references) :
               RatioAbove(comparison_lower, PyLower(references[k]), OverlapRatioNum, OverlapRatioDen)
        \/ /\ Cardinality(comparison_words) > 0
           /\ Cardinality(comparison_words \cap original_words) * WordShareDen
                  > WordShareNum * Cardinality(comparison_words)

----------------------------------------------------------------------------
(* Inputs of the overlap model *)

Hello == <<"h", "e", "l", "l", "o">>
HelloThere == <<"h", "e", "l", "l", "o", " ", "t", "h", "e", "r", "e">>
HelloThereUpper == <<"H", "E", "L", "L", "O", " ", "T", "H", "E", "R", "E">>
ThereHello == <<"t", "h", "e", "r", "e", " ", "h", "e", "l", "l", "o">>
HelloWorld == <<"h", "e", "l", "l", "o", " ", "w", "o", "r", "l", "d">>
TenLetters == <<"a", "b", "c", "d", "e", "f", "g", "x", "y", "z">>
ShortWords == <<"a", " ", "b", "c">>

CandidateTexts ==
    {Hello, HelloThere, HelloThereUpper, ThereHello, HelloWorld, TenLetters, ShortWords}

HelloThereBang == <<"h", "e", "l", "l", "o", " ", "t", "h", "e", "r", "e", "!">>
TenLettersOther == <<"a", "b", "c", "d", "e", "f", "g", "p", "q", "r">>
Zzz == <<"z", "z", "z">>

ReferenceTexts == {HelloThereBang, TenLettersOther, Zzz}

SayHelloThere == <<"s", "a", "y", " ", "h", "e", "l", "l", "o", " ", "t", "h", "e", "r", "e">>
Xyz == <<"x", "y", "z">>
HelloXx == <<"H", "e", "l", "l", "o", " ", "x", "x">>
HelloCommaThere == <<"h", "e", "l", "l", "o", ",", " ", "t", "h", "e", "r", "e">>

RegionTexts == {SayHelloThere, Xyz, HelloXx, HelloCommaThere}

InitOverlap ==
    /\ comparison_sent \in CandidateTexts
    /\ seams_texts \in SeqsUpTo(ReferenceTexts, MaxSentences)
    /\ region_text \in RegionTexts
    /\ overlaps = FALSE
    /\ opc = "start"
    /\ OutsideOverlapIdle

CheckOverlap ==
    /\ opc = "start"
    /\ overlaps' = sentences_overlap(comparison_sent, seams_texts, region_text)
    /\ opc' = "done"
    /\ UNCHANGED <<comparison_sent, seams_texts, region_text>>
    /\ UNCHANGED outsideOverlap

NextOverlap == CheckOverlap

SpecOverlap == InitOverlap /\ [][NextOverlap]_vars

----------------------------------------------------------------------------
(* Claims about the overlap test *)

\* (a) the lower-cased candidate is a substring of the lower-cased region
CandidateInRegion == IsSubstring(PyLower(comparison_sent), PyLower(region_text))

\* the distinct words of a text that are longer than four characters
LongWords(text) == {word \in Range(PySplit(text)) : Len(word) >= 5}

\* strictly more than half of the words of the set occur in the text
MostlyIn(words, text) ==
    2 * Cardinality(words \cap Range(PySplit(text))) > Cardinality(words)

\* C18 as stated: sentences_overlap is true exactly when (a) holds, or (b)
\* the ratio between the candidate and some reference sentence exceeds 0.7,
\* or (c) the candidate has a word longer than 4 characters and more than
\* half of such words occur in the region's whitespace-split word set.
C18_OverlapIff ==
    (opc = "done") =>
        (overlaps <=>
            \/ CandidateInRegion
            \/ \E k \in 1..Len(seams_texts) : RatioAbove(comparison_sent, seams_texts[k], 7, 10)
            \/ /\ LongWords(comparison_sent) # {}
               /\ MostlyIn(LongWords(comparison_sent), region_text))

\* C18 amended: sentences_overlap is true exactly when (a) holds, or (b) the
\* ratio between the lower-cased candidate and some lower-cased reference
\* sentence exceeds 0.7, or (c) the lower-cased candidate has a word longer
\* than 4 characters and more than half of its distinct such words occur in
\* the whitespace-split word set of the lower-cased region.
C18_OverlapIffIgnoringCase ==
    (opc = "done") =>
        (overlaps <=>
            \/ CandidateInRegion
            \/ \E k \in 1..Len(seams_texts) :
                   RatioAbove(PyLower(comparison_sent), PyLower(seams_texts[k]), 7, 10)
            \/ /\ LongWords(PyLower(comparison_sent)) # {}
               /\ MostlyIn(LongWords(PyLower(comparison_sent)), PyLower(region_text)))

\* "there hello" against the region "say hello there": not a substring, not
\* similar to the reference "zzz", but both long words occur in the region
C18_Witness ==
    /\ opc = "done"
    /\ comparison_sent = ThereHello
    /\ seams_texts = <<Zzz>>
    /\ region_text = SayHelloThere
    /\ ~CandidateInRegion
    /\ overlaps

----------------------------------------------------------------------------
(* Comparing the regions of one file pair *)

MaxRegions == 2

\* find_disagreements_in_file_pair skips a region whose text, stripped, is shorter
MinRegionChars == 20

\* find_overlapping_regions skips a region whose text is shorter
MinBoundaryRegionChars == 50

\* "if not pysbd_sentences or not nupunkt_sentences: continue"
segmenter_came_back_empty(pysbd, nupunkt) == pysbd = <<>> \/ nupunkt = <<>>

\* one iteration of the chunk loop of find_differences_in_file_pair: the
\* records it appends
compare_chunk(k, region) ==
    IF region.text = <<>> \/ Len(PyStrip(region.text)) < MinChunkChars THEN <<>>
    ELSE IF segmenter_came_back_empty(region.pysbd, region.nupunkt) THEN <<>>
    ELSE LET differs_from_pysbd   == segmentations_differ(region.seams, region.pysbd)
             differs_from_nupunkt == segmentations_differ(region.seams, region.nupunkt)
         IN  IF differs_from_pysbd \/ differs_from_nupunkt
             THEN <<[region |-> k, seams_sentences |-> region.seams,
                     pysbd_sentences |-> region.pysbd, nupunkt_sentences |-> region.nupunkt,
                     differs_from_pysbd |-> differs_from_pysbd,
                     differs_from_nupunkt |-> differs_from_nupunkt]>>
             ELSE <<>>

\* a region loop that also keeps the regions on which no two methods agree
compare_region_keeping_all_disagree(k, region) ==
    IF region.text = <<>> \/ Len(PyStrip(region.text)) < MinRegionChars THEN <<>>
    ELSE IF segmenter_came_back_empty(region.pysbd, region.nupunkt) THEN <<>>
    ELSE LET type == classify_disagreement(region.seams, region.pysbd, region.nupunkt)
         IN  IF type # "no_disagreement"
             THEN <<[region |-> k, seams_sentences |-> region.seams,
                     pysbd_sentences |-> region.pysbd, nupunkt_sentences |-> region.nupunkt,
                     disagreement_type |-> type]>>
             ELSE <<>>

\* one iteration of the region loop of find_disagreements_in_file_pair
compare_region(k, region) ==
    IF region.text = <<>> \/ Len(PyStrip(region.text)) < MinRegionChars THEN <<>>
    ELSE IF segmenter_came_back_empty(region.pysbd, region.nupunkt) THEN <<>>
    ELSE LET type == classify_disagreement(region.seams, region.pysbd, region.nupunkt)
         IN  IF type \in {"seams_vs_both", "seams_vs_pysbd", "seams_vs_nupunkt"}
             THEN <<[region |-> k, seams_sentences |-> region.seams,
                     pysbd_sentences |-> region.pysbd, nupunkt_sentences |-> region.nupunkt,
                     disagreement_type |-> type]>>
             ELSE <<>>

\* [s.strip() for s in list if s.strip()]
StripNonEmpty(list) ==
    LET RECURSIVE Go(_)
        Go(rest) == IF rest = <<>> THEN <<>>
                    ELSE (IF PyStrip(Head(rest)) = <<>> THEN <<>> ELSE <<PyStrip(Head(rest))>>)
                         \o Go(Tail(rest))
    IN  Go(list)

\* " ".join(list).lower().replace(" ", "")
JoinedWithoutBlanks(list) ==
    LET joined == PyLower(PyJoin(<<" ">>, list))
        RECURSIVE Go(_)
        Go(rest) == IF rest = <<>> THEN <<>>
                    ELSE (IF Head(rest) = " " THEN <<>> ELSE <<Head(rest)>>) \o Go(Tail(rest))
    IN  Go(joined)

\* BoundaryGoldSetBuilder.should_filter_example
should_filter_example(text, seams, nupunkt, pysbd) ==
    \/ ~\E k \in 1..Len(text) : \E l \in 1..Len(LowerCase) : text[k] = LowerCase[l]
    \/ LET stripped == StripNonEmpty(seams)
       IN  /\ Len(stripped) = Len(nupunkt)
           /\ Len(nupunkt) = Len(pysbd)
           /\ Len(stripped) > 0
           /\ JoinedWithoutBlanks(stripped) = JoinedWithoutBlanks(nupunkt)
           /\ JoinedWithoutBlanks(nupunkt) = JoinedWithoutBlanks(pysbd)

\* a group loop that also keeps the groups for which as many comparison
\* sentences as seams sentences were found
compare_group_keeping_equal_counts(k, region) ==
    IF region.text = <<>> \/ Len(region.text) < MinBoundaryRegionChars THEN <<>>
    ELSE IF region.comparison # <<>>
         THEN IF should_filter_example(PyStrip(region.text), region.seams,
                                       region.nupunkt, region.pysbd)
              THEN <<>>
              ELSE <<[region |-> k, seams_sentences |-> region.seams,
                      comparison_sentences |-> region.comparison,
                      pysbd_sentences |-> region.pysbd, nupunkt_sentences |-> region.nupunkt,
                      disagreement_type |->
                          boundary_classify_disagreement(region.seams, region.comparison)]>>
         ELSE <<>>

\* one iteration of the group loop of find_overlapping_regions, from the
\* overlapping comparison sentences it has found
compare_group(k, region) ==
    IF region.text = <<>> \/ Len(region.text) < MinBoundaryRegionChars THEN <<>>
    ELSE IF Len(region.comparison) # Len(region.seams) /\ region.comparison # <<>>
         THEN IF should_filter_example(PyStrip(region.text), region.seams,
                                       region.nupunkt, region.pysbd)
              THEN <<>>
              ELSE <<[region |-> k, seams_sentences |-> region.seams,
                      comparison_sentences |-> region.comparison,
                      pysbd_sentences |-> region.pysbd, nupunkt_sentences |-> region.nupunkt,
                      disagreement_type |->
                          boundary_classify_disagreement(region.seams, region.comparison)]>>
         ELSE <<>>

----------------------------------------------------------------------------
(* Inputs of the comparison model *)

\* a region text long enough for every script
NightText ==
    <<"i", "t", " ", "w", "a", "s", " ", "a", " ", "d", "a", "r", "k", " ", "n", "i", "g", "h", "t", ".", " ", "t", "h", "e", " ", "r", "a", "i", "n", " ", "f", "e", "l", "l", ".", " ", "n", "o", "b", "o", "d", "y", " ", "c", "a", "m", "e", " ", "t", "o", " ", "t", "h", "e", " ", "d", "o", "o", "r", ".">>

\* the same text in capitals
NightTextUpper ==
    <<"I", "T", " ", "W", "A", "S", " ", "A", " ", "D", "A", "R", "K", " ", "N", "I", "G", "H", "T", ".", " ", "T", "H", "E", " ", "R", "A", "I", "N", " ", "F", "E", "L", "L", ".", " ", "N", "O", "B", "O", "D", "Y", " ", "C", "A", "M", "E", " ", "T", "O", " ", "T", "H", "E", " ", "D", "O", "O", "R", ".">>

OneSentence == <<<<"a", " ", "b">>>>
TwoSentences == <<<<"a">>, <<"b">>>>
ThreeSentences == <<<<"a">>, <<"b">>, <<"c">>>>

\* what the primary method can say about a region
SeamsChoices == {OneSentence, TwoSentences}

\* what another method can say; <<>> when it raised or returned nothing
OtherChoices == {<<>>, OneSentence, TwoSentences}

\* a region that each of the three methods splits differently
AllDisagreeRegion ==
    [text |-> NightText, seams |-> OneSentence, pysbd |-> TwoSentences,
     nupunkt |-> ThreeSentences, comparison |-> <<>>]

\* the regions of the three-way scripts
ThreeWayRegions ==
    [text : {NoText, NightText}, seams : SeamsChoices, pysbd : OtherChoices,
     nupunkt : OtherChoices, comparison : {<<>>}]
    \cup {AllDisagreeRegion}

\* the regions of the boundary builder: both libraries missing, both
\* returning one sentence, or nupunkt splitting where pysbd does not
BoundaryRegions ==
    {[text |-> t, seams |-> sm, pysbd |-> o[1], nupunkt |-> o[2], comparison |-> c] :
        t \in {NightText, NightTextUpper}, sm \in SeamsChoices, c \in OtherChoices,
        o \in {<<<<>>, <<>>>>, <<OneSentence, OneSentence>>, <<OneSentence, TwoSentences>>}}
    \cup {[text |-> NoText, seams |-> TwoSentences, pysbd |-> <<>>, nupunkt |-> <<>>,
           comparison |-> OneSentence]}

InitCompare ==
    /\ script \in {"find_differences_in_file_pair", "find_disagreements_in_file_pair",
                    "find_overlapping_regions"}
    /\ regions \in IF script = "find_overlapping_regions"
                    THEN SeqsUpTo(BoundaryRegions, MaxRegions)
                    ELSE SeqsUpTo(ThreeWayRegions, MaxRegions)
    /\ region_idx = 0
    /\ differences = <<>>
    /\ dpc = "looping"
    /\ OutsideCompareIdle

\* the loop body for the next region
CompareStep(name, added) ==
    /\ dpc = "looping"
    /\ script = name
    /\ region_idx < Len(regions)
    /\ differences' = differences \o added
    /\ region_idx' = region_idx + 1
    /\ UNCHANGED <<script, regions, dpc>>
    /\ UNCHANGED outsideCompare

CompareNextChunk ==
    CompareStep("find_differences_in_file_pair",
                compare_chunk(region_idx + 1, regions[region_idx + 1]))

CompareNextRegion ==
    CompareStep("find_disagreements_in_file_pair",
                compare_region(region_idx + 1, regions[region_idx + 1]))

CompareNextGroup ==
    CompareStep("find_overlapping_regions",
                compare_group(region_idx + 1, regions[region_idx + 1]))

\* the loop ends: the list is returned
ReturnDifferences ==
    /\ dpc = "looping"
    /\ region_idx = Len(regions)
    /\ dpc' = "returned"
    /\ UNCHANGED <<script, regions, region_idx, differences>>
    /\ UNCHANGED outsideCompare

NextCompare ==
    \/ CompareNextChunk
    \/ CompareNextRegion
    \/ CompareNextGroup
    \/ ReturnDifferences

SpecCompare == InitCompare /\ [][NextCompare]_vars

----------------------------------------------------------------------------
(* Claims about the comparison loops *)

ThreeWayScripts == {"find_differences_in_file_pair", "find_disagreements_in_file_pair"}

\* region k has been consumed, its text was extracted, one reference method
\* came back empty and the other split the text into a different number of
\* sentences than the primary method
OneReferenceFailed(k) ==
    LET r == regions[k]
    IN  /\ k <= region_idx
        /\ r.text = NightText
        /\ \/ r.pysbd = <<>> /\ r.nupunkt # <<>> /\ Len(r.nupunkt) # Len(r.seams)
           \/ r.nupunkt = <<>> /\ r.pysbd # <<>> /\ Len(r.pysbd) # Len(r.seams)

RecordedRegions == {differences[d].region : d \in 1..Len(differences)}

\* C16: in the three-way scripts, a region for which one reference method
\* raised or returned nothing is still compared against the other
\* reference method, and its difference from that method is recorded.
C16_OtherMethodStillCompared ==
    (script \in ThreeWayScripts) =>
        \A k \in 1..Len(regions) : OneReferenceFailed(k) => k \in RecordedRegions

\* the record has a method that its script judges non-equivalent to the
\* primary segmentation
HasNonEquivalentMethod(rec) ==
    CASE script = "find_differences_in_file_pair" ->
             \/ Len(rec.seams_sentences) # Len(rec.pysbd_sentences)
             \/ Len(rec.seams_sentences) # Len(rec.nupunkt_sentences)
             \/ JoinNormalized(rec.seams_sentences) # JoinNormalized(rec.pysbd_sentences)
             \/ JoinNormalized(rec.seams_sentences) # JoinNormalized(rec.nupunkt_sentences)
      [] script = "find_disagreements_in_file_pair" ->
             \/ ~sentences_are_similar(rec.seams_sentences, rec.pysbd_sentences)
             \/ ~sentences_are_similar(rec.seams_sentences, rec.nupunkt_sentences)
      [] script = "find_overlapping_regions" ->
             Len(rec.comparison_sentences) # Len(rec.seams_sentences)

\* C17: in every state of a run, every accumulated disagreement record has
\* at least one method whose segmentation of the region is judged
\* non-equivalent to the primary one.
C17_RecordsDisagree ==
    \A d \in 1..Len(differences) : HasNonEquivalentMethod(differences[d])

\* two regions: all three methods agree on the first, pysbd alone splits
\* the second; only the second is retained
C17_Witness ==
    /\ dpc = "returned"
    /\ script = "find_disagreements_in_file_pair"
    /\ Len(regions) = 2
    /\ regions[1] = [text |-> NightText, seams |-> OneSentence, pysbd |-> OneSentence,
                      nupunkt |-> OneSentence, comparison |-> <<>>]
    /\ regions[2] = [text |-> NightText, seams |-> OneSentence, pysbd |-> TwoSentences,
                      nupunkt |-> OneSentence, comparison |-> <<>>]
    /\ RecordedRegions = {2}
    /\ differences[1].disagreement_type = "seams_vs_pysbd"

\* the verdict of the three-way classifier on region k
VerdictOf(k) ==
    classify_disagreement(regions[k].seams, regions[k].pysbd, regions[k].nupunkt)

\* C27: in find_disagreements_in_file_pair every accumulated record has
\* disagreement_type seams_vs_both, seams_vs_pysbd or seams_vs_nupunkt, and
\* no consumed region whose verdict is all_disagree or no_disagreement has a
\* record.
C27_OnlyPrimaryVsReference ==
    (script = "find_disagreements_in_file_pair") =>
        /\ \A d \in 1..Len(differences) :
               /\ differences[d].disagreement_type
                      \in {"seams_vs_both", "seams_vs_pysbd", "seams_vs_nupunkt"}
               /\ differences[d].disagreement_type = VerdictOf(differences[d].region)
        /\ \A k \in 1..region_idx :
               VerdictOf(k) \in {"all_disagree", "no_disagreement"} => k \notin RecordedRegions

\* a region the three methods split into one, two and three sentences is
\* dropped, the region after it, where pysbd alone differs, is kept
C27_Witness ==
    /\ dpc = "returned"
    /\ script = "find_disagreements_in_file_pair"
    /\ Len(regions) = 2
    /\ regions[1] = AllDisagreeRegion
    /\ VerdictOf(1) = "all_disagree"
    /\ ~sentences_are_similar(regions[1].seams, regions[1].pysbd)
    /\ ~sentences_are_similar(regions[1].seams, regions[1].nupunkt)
    /\ VerdictOf(2) = "seams_vs_pysbd"
    /\ RecordedRegions = {2}

----------------------------------------------------------------------------
(* The region search of the boundary builder: find_overlapping_regions *)

\* lines in a document of the region search
MaxGroupLines == 2

\* sentences in a long comparison file
MaxComparison == 22

\* "range(0, len(seams_sentences) - 1, 2)" and "[seams_start:seams_start + 3]"
GroupStep == 2
GroupSize == 3

\* "max(0, fast_idx - 5)" and "min(len(comparison_sentences), fast_idx + 20)"
LookBack == 5
LookAhead == 20

seams_group_of(records, start) == PySlice(records, start, start + GroupSize)

\* the text of a group: from the start of its first sentence to the end of
\* its last
region_of(lines, group) ==
    extract_original_region(lines, group[1][2], group[1][3],
                            group[Len(group)][4], group[Len(group)][5])

\* "if not original_region or len(original_region) < 50: continue"
group_is_skipped(region) == region = <<>> \/ Len(region) < MinBoundaryRegionChars

texts_of(group) == [k \in 1..Len(group) |-> group[k][1]]

search_start_of(cursor) == Max(0, cursor - LookBack)

\* a search that looks ahead to the end of the comparison file
search_end_unlimited(comparison, cursor) == Len(comparison)

search_end_of(comparison, cursor) == Min(Len(comparison), cursor + LookAhead)

\* get_nupunkt_pysbd_segmentations: nothing when the libraries are missing
\* or raise; here a library that answers returns the text as one sentence
get_nupunkt_pysbd_segmentations(text, outcome) ==
    IF outcome = "unavailable" \/ text = <<>> THEN <<<<>>, <<>>>>
    ELSE <<<<text>>, <<text>>>>

\* what the end of a group's search appends to examples
group_examples(lines, records, start, found, outcome) ==
    LET group  == seams_group_of(records, start)
        region == region_of(lines, group)
        others == get_nupunkt_pysbd_segmentations(PyStrip(region), outcome)
    IN  compare_group(start, [text |-> region, seams |-> texts_of(group),
                              comparison |-> found, nupunkt |-> others[1],
                              pysbd |-> others[2]])

----------------------------------------------------------------------------
(* Inputs of the region search *)

NightLine == NightText \o <<"\n">>

\* the three sentences of NightText, as the seams file gives them for line n
NightRecords(n) ==
    <<<<SubSeq(NightText, 1, 20), n, 1, n, 21>>,
      <<SubSeq(NightText, 22, 35), n, 22, n, 36>>,
      <<SubSeq(NightText, 37, 60), n, 37, n, 61>>>>

RECURSIVE AllNightRecords(_)
AllNightRecords(n) == IF n = 0 THEN <<>> ELSE AllNightRecords(n - 1) \o NightRecords(n)

\* a document of n lines with the first k sentences of its seams file
GroupDocuments ==
    UNION {{<<[l \in 1..n |-> NightLine], SubSeq(AllNightRecords(n), 1, k)>> :
               k \in 0..(GroupSize * n)} : n \in 1..MaxGroupLines}

DarkNight == SubSeq(NightText, 1, 20)
RainFell == SubSeq(NightText, 22, 35)
NobodyCame == SubSeq(NightText, 37, 60)

\* what a comparison file can say: a sentence of the text, the same in
\* capitals, two sentences in one, or a sentence from elsewhere
ComparisonTexts ==
    {DarkNight, SubSeq(NightTextUpper, 1, 20), SubSeq(NightText, 22, 60), Zzz}

\* a run of n sentences of the text, the k-th replaced by one from elsewhere
\* (k = 0: none replaced)
ComparisonRun(n, k) == [j \in 1..n |-> IF j = k THEN Zzz ELSE RainFell]

ComparisonFiles ==
    SeqsUpTo(ComparisonTexts, 2)
    \cup {<<DarkNight, RainFell, NobodyCame>>}
    \cup {ComparisonRun(n, k) : n \in (LookAhead + 1)..MaxComparison, k \in {0, 1, LookAhead}}

InitWindow ==
    /\ \E d \in GroupDocuments : source_lines = d[1] /\ seams_records = d[2]
    /\ comparison_sentences \in ComparisonFiles
    /\ segmenters \in {"unavailable", "one_sentence"}
    /\ seams_start = 0
    /\ fast_idx = 0
    /\ scan_i = 0
    /\ overlapping_comparison = <<>>
    /\ consumed_count = 0
    /\ region_examples = <<>>
    /\ wpc = "groups"
    /\ OutsideWindowIdle

\* the next group is too short: "continue"
SkipGroup ==
    /\ wpc = "groups"
    /\ seams_start < Len(seams_records) - 1
    /\ group_is_skipped(region_of(source_lines, seams_group_of(seams_records, seams_start)))
    /\ seams_start' = seams_start + GroupStep
    /\ UNCHANGED <<source_lines, seams_records, comparison_sentences, segmenters, fast_idx,
                   scan_i, overlapping_comparison, consumed_count, region_examples, wpc>>
    /\ UNCHANGED outsideWindow

\* the next group has a region: the search over the window starts
StartSearch ==
    /\ wpc = "groups"
    /\ seams_start < Len(seams_records) - 1
    /\ ~group_is_skipped(region_of(source_lines, seams_group_of(seams_records, seams_start)))
    /\ overlapping_comparison' = <<>>
    /\ consumed_count' = 0
    /\ scan_i' = search_start_of(fast_idx)
    /\ wpc' = "search"
    /\ UNCHANGED <<source_lines, seams_records, comparison_sentences, segmenters,
                   seams_start, fast_idx, region_examples>>
    /\ UNCHANGED outsideWindow

\* one iteration of "for i in range(search_start, search_end)"
SearchStep ==
    /\ wpc = "search"
    /\ scan_i < search_end_of(comparison_sentences, fast_idx)
    /\ LET group == seams_group_of(seams_records, seams_start)
           hit   == sentences_overlap(comparison_sentences[scan_i + 1], texts_of(group),
                                      region_of(source_lines, group))
       IN  /\ overlapping_comparison' =
                  IF hit THEN Append(overlapping_comparison, comparison_sentences[scan_i + 1])
                  ELSE overlapping_comparison
           /\ consumed_count' =
                  IF hit /\ scan_i >= fast_idx THEN consumed_count + 1 ELSE consumed_count
    /\ scan_i' = scan_i + 1
    /\ UNCHANGED <<source_lines, seams_records, comparison_sentences, segmenters,
                   seams_start, fast_idx, region_examples, wpc>>
    /\ UNCHANGED outsideWindow

\* the search is over: the cursor advances and the group's example, if
\* any, is appended
EndSearch ==
    /\ wpc = "search"
    /\ ~(scan_i < search_end_of(comparison_sentences, fast_idx))
    /\ fast_idx' = IF consumed_count > 0 THEN fast_idx + consumed_count ELSE fast_idx
    /\ region_examples' =
           region_examples \o group_examples(source_lines, seams_records, seams_start,
                                             overlapping_comparison, segmenters)
    /\ seams_start' = seams_start + GroupStep
    /\ wpc' = "groups"
    /\ UNCHANGED <<source_lines, seams_records, comparison_sentences, segmenters, scan_i,
                   overlapping_comparison, consumed_count>>
    /\ UNCHANGED outsideWindow

\* "return examples"
ReturnExamples ==
    /\ wpc = "groups"
    /\ ~(seams_start < Len(seams_records) - 1)
    /\ wpc' = "returned"
    /\ UNCHANGED <<source_lines, seams_records, comparison_sentences, segmenters,
                   seams_start, fast_idx, scan_i, overlapping_comparison, consumed_count,
                   region_examples>>
    /\ UNCHANGED outsideWindow

NextWindow ==
    \/ SkipGroup
    \/ StartSearch
    \/ SearchStep
    \/ EndSearch
    \/ ReturnExamples

SpecWindow == InitWindow /\ [][NextWindow]_vars

----------------------------------------------------------------------------
(* Claims about the region search *)

CursorInRange == 0 <= fast_idx /\ fast_idx <= Len(comparison_sentences)

\* the indexes [max(0, fast_idx - 5), min(len, fast_idx + 20))
CursorWindow ==
    {k \in 0..(Len(comparison_sentences) - 1) : fast_idx - 5 <= k /\ k < fast_idx + 20}

\* the comparison sentence at index k overlaps the group being searched
OverlapsGroup(k) ==
    LET group == seams_group_of(seams_records, seams_start)
    IN  sentences_overlap(comparison_sentences[k + 1], texts_of(group),
                          region_of(source_lines, group))

\* a step of the search examines an index of the window; the step that
\* ends a search adds to the cursor the number of overlapping sentences of
\* the window at or after the cursor; no other step moves the cursor
CursorStep ==
    /\ fast_idx' >= fast_idx
    /\ (wpc = "search" /\ scan_i' # scan_i) => scan_i \in CursorWindow
    /\ IF wpc = "search" /\ wpc' = "groups"
       THEN fast_idx' = fast_idx
                + Cardinality({k \in CursorWindow : k >= fast_idx /\ OverlapsGroup(k)})
       ELSE fast_idx' = fast_idx

\* C29: throughout find_overlapping_regions 0 <= fast_idx <=
\* len(comparison_sentences) and fast_idx never decreases; for each group
\* that is searched, only comparison sentences at indexes in
\* [max(0, fast_idx - 5), min(len, fast_idx + 20)) are examined and fast_idx
\* advances by exactly the number of overlapping sentences of that window
\* at indexes >= fast_idx.
C29_CursorAndWindow == []CursorInRange /\ [][CursorStep]_vars

\* the second search of a long comparison file: the cursor stands at 20,
\* the search starts 5 before it and the file ends before the lookahead does
C29_Witness ==
    /\ wpc = "search"
    /\ fast_idx = 20
    /\ scan_i = 15
    /\ seams_start = 2
    /\ Len(comparison_sentences) = 22
    /\ CursorWindow = 15..21

\* C30: every example find_overlapping_regions has appended has a non-empty
\* comparison_sentences list whose length differs from the number of its
\* seams sentences, and its disagreement_type is over_split or under_split,
\* never different_boundaries.
C30_NeverDifferentBoundaries ==
    \A e \in 1..Len(region_examples) :
        /\ region_examples[e].comparison_sentences # <<>>
        /\ Len(region_examples[e].comparison_sentences)
               # Len(region_examples[e].seams_sentences)
        /\ region_examples[e].disagreement_type \in {"over_split", "under_split"}

\* a group whose three sentences the comparison file also has, one by
\* one: all three overlap and the group gives no example
C30_Witness ==
    /\ wpc = "returned"
    /\ Len(seams_records) = 3
    /\ comparison_sentences = <<DarkNight, RainFell, NobodyCame>>
    /\ overlapping_comparison = comparison_sentences
    /\ fast_idx = 3
    /\ region_examples = <<>>

\* with two of the three in one sentence the group gives an under_split
\* example
UnderSplitExported ==
    /\ wpc = "returned"
    /\ Len(seams_records) = 3
    /\ comparison_sentences = <<DarkNight, SubSeq(NightText, 22, 60)>>
    /\ Len(region_examples) = 1
    /\ region_examples[1].disagreement_type = "under_split"

----------------------------------------------------------------------------
(* Two runs with one seed *)

\* largest --seed of a run
MaxSeed == 1

\* the generator after random.seed(seed): its c-th value below n (c counts
\* from 0) is a fixed function of the seed and of c
RandBelow(seed, c, n) == ((seed + 2) * (c + 1) + seed) % n

\* random.sample(population, k) with the seeded generator, c values drawn
\* before: "j = randbelow(n - i); result[i] = pool[j]; pool[j] = pool[n-i-1]"
SeededSample(population, k, seed, c) ==
    LET n == Len(population)
        RECURSIVE Go(_, _, _)
        Go(i, pool, picked) ==
            IF i >= k THEN picked
            ELSE LET j == RandBelow(seed, c + i, n - i)
                 IN  Go(i + 1, [pool EXCEPT ![j + 1] = pool[n - i]], Append(picked, pool[j + 1]))
    IN  Go(0, population, <<>>)

\* random.shuffle(x) with the seeded generator: "for i in
\* reversed(range(1, len(x))): j = randbelow(i + 1); x[i], x[j] = x[j], x[i]"
SeededShuffle(x, seed, c) ==
    LET RECURSIVE Go(_, _, _)
        Go(i, list, drawn) ==
            IF i < 1 THEN list
            ELSE LET j == RandBelow(seed, c + drawn, i + 1)
                 IN  Go(i - 1, [list EXCEPT ![i + 1] = list[j + 1], ![j + 1] = list[i + 1]],
                        drawn + 1)
    IN  Go(Len(x) - 1, x, 0)

\* the per-category loop with the seeded generator, from category ci on:
\* <<selected positions, values drawn>>
RECURSIVE SeededCategories(_, _, _, _, _, _, _)
SeededCategories(b, examples, target, seed, ci, selected, c) ==
    LET cats == Categories(b, examples)
    IN  IF ci > Len(cats) THEN <<selected, c>>
        ELSE LET available == CategoryPositions(examples, cats[ci])
                 quota     == CategoryQuota(b, examples, target, cats[ci])
                 k         == IF b = "gold"
                              THEN (IF Len(available) > quota THEN quota ELSE 0)
                              ELSE Min(quota, Len(available))
                 pick      == IF b = "gold" /\ ~(Len(available) > quota)
                              THEN available
                              ELSE SeededSample(available, k, seed, c)
             IN  SeededCategories(b, examples, target, seed, ci + 1, selected \o pick, c + k)

\* the sampling part of build_gold_set / build_boundary_gold_set with the
\* seeded generator, c values drawn before: the examples returned
select_examples(b, examples, target, seed, c) ==
    LET after     == SeededCategories(b, examples, target, seed, 1, <<>>, c)
        selected  == after[1]
        remaining == Remaining(examples, selected)
        k         == IF Len(selected) < target
                     THEN Min(target - Len(selected), Len(remaining))
                     ELSE 0
        filled    == selected \o SeededSample(remaining, k, seed, after[2])
        shuffled  == SeededShuffle(filled, seed, after[2] + k)
    IN  PySliceTo([q \in 1..Len(shuffled) |-> examples[shuffled[q]]], target)

\* the orders in which a process can iterate a set of strings: string hashes
\* are salted per process, so any order
IterationOrders(set) ==
    {order \in [1..Cardinality(set) -> set] :
        \A p, q \in 1..Cardinality(set) : p # q => order[p] # order[q]}

\* classify_sentence_complexity of the sentences of the inputs
Complexity(text) == IF text = "s3" THEN "dialog" ELSE "normal"

ExamplesOf(texts, method) ==
    [p \in 1..Len(texts) |-> [key |-> Complexity(texts[p]), val |-> texts[p], method |-> method]]

\* analyze_discrepancies sampling limits
BothSampleLimit == 50
SeamsSampleLimit == 100

----------------------------------------------------------------------------
(* Inputs and steps of the two runs *)

SeamsFiles == {<<"s1">>, <<"s1", "s2">>, <<"s1", "s2", "s3">>}

InitRuns ==
    /\ run_builder \in {"gold", "boundary"}
    /\ run_seed \in 0..MaxSeed
    /\ run_target \in 1..MaxTarget
    /\ seams_file_texts \in SeamsFiles
    /\ fast_file_texts \in SUBSET {"s1", "s2", "s3"}
    /\ run_examples = [r \in 1..2 |-> <<>>]
    /\ run_output = [r \in 1..2 |-> <<>>]
    /\ rpc = [r \in 1..2 |-> "start"]
    /\ OutsideRunIdle

\* GoldSetBuilder.analyze_discrepancies in run r: the seams-only texts in
\* the iteration order of their set, then the sample of list(both_texts)
AnalyzeDiscrepancies(r) ==
    /\ run_builder = "gold"
    /\ rpc[r] = "start"
    /\ LET seams_only == Range(seams_file_texts) \ fast_file_texts
           both_texts == Range(seams_file_texts) \cap fast_file_texts
       IN  \E only_order \in IterationOrders(seams_only), both_list \in IterationOrders(both_texts) :
               LET both_sample ==
                       SeededSample(both_list, Min(BothSampleLimit, Len(both_list)), run_seed, 0)
               IN  run_examples' = [run_examples EXCEPT ![r] =
                       ExamplesOf(only_order, "seams_only") \o ExamplesOf(both_sample, "both")]
    /\ rpc' = [rpc EXCEPT ![r] = "analyzed"]
    /\ UNCHANGED <<run_builder, run_seed, run_target, seams_file_texts, fast_file_texts, run_output>>
    /\ UNCHANGED outsideRun

\* the boundary builder in run r: the candidates come from lists, in file order
AnalyzeBoundaries(r) ==
    /\ run_builder = "boundary"
    /\ rpc[r] = "start"
    /\ run_examples' = [run_examples EXCEPT ![r] = ExamplesOf(seams_file_texts, "boundary")]
    /\ rpc' = [rpc EXCEPT ![r] = "analyzed"]
    /\ UNCHANGED <<run_builder, run_seed, run_target, seams_file_texts, fast_file_texts, run_output>>
    /\ UNCHANGED outsideRun

\* values drawn from the generator before the sampling part starts
DrawnByAnalysis ==
    IF run_builder = "gold"
    THEN Min(BothSampleLimit, Cardinality(Range(seams_file_texts) \cap fast_file_texts))
         + Min(SeamsSampleLimit, Cardinality(Range(seams_file_texts)))
    ELSE 0

\* the sampling part of run r
SelectExamples(r) ==
    /\ rpc[r] = "analyzed"
    /\ run_output' = [run_output EXCEPT ![r] =
           select_examples(run_builder, run_examples[r], run_target, run_seed, DrawnByAnalysis)]
    /\ rpc' = [rpc EXCEPT ![r] = "done"]
    /\ UNCHANGED <<run_builder, run_seed, run_target, seams_file_texts, fast_file_texts, run_examples>>
    /\ UNCHANGED outsideRun

NextRuns ==
    \E r \in 1..2 :
        \/ AnalyzeDiscrepancies(r)
        \/ AnalyzeBoundaries(r)
        \/ SelectExamples(r)

SpecRuns == InitRuns /\ [][NextRuns]_vars

----------------------------------------------------------------------------
(* Claims about reproducibility *)

BothRunsDone == rpc[1] = "done" /\ rpc[2] = "done"

\* C11: two runs of a builder on the same input files with the same seed
\* build their candidates in the same order and return the same examples in
\* the same order.
C11_SameSeedSameOutput ==
    /\ (rpc[1] # "start" /\ rpc[2] # "start") => run_examples[1] = run_examples[2]
    /\ BothRunsDone => run_output[1] = run_output[2]

----------------------------------------------------------------------------
(* A whole run of a builder: the file pairs of a corpus, one after another *)

\* most file pairs of a corpus
MaxFiles == 2

Scripts == {"build_gold_set", "build_boundary_gold_set", "build_seams_disagreement_set"}

\* which sampler a script has
SamplerOf(name) == IF name = "build_gold_set" THEN "gold" ELSE "boundary"

\* the elements of seq that are in kept, in the order of seq
Keeping(seq, kept) ==
    LET at == PositionsFrom(seq, kept, 1)
    IN  [q \in 1..Len(at) |-> seq[at[q]]]

\* GoldSetBuilder.analyze_discrepancies with the seeded generator, c values
\* drawn before; a file's sets of texts are iterated in the order of
\* seams_texts
analyze_discrepancies(file, seed, c) ==
    LET all_texts        == file.seams_texts
        seams_only       == Keeping(all_texts, Range(all_texts) \ file.fast_texts)
        both_texts       == Keeping(all_texts, Range(all_texts) \cap file.fast_texts)
        both_sample      == SeededSample(both_texts, Min(BothSampleLimit, Len(both_texts)),
                                         seed, c)
        all_seams_sample == SeededSample(all_texts, Min(SeamsSampleLimit, Len(all_texts)),
                                         seed, c + Len(both_sample))
        others           == Keeping(all_seams_sample,
                                    Range(all_seams_sample)
                                        \ (Range(seams_only) \cup Range(both_sample)))
        example(text, method) ==
            [key |-> Complexity(text), text |-> text, method |-> method,
             source_file |-> file.name]
    IN  [p \in 1..Len(seams_only) |-> example(seams_only[p], "seams_only")]
        \o [p \in 1..Len(both_sample) |-> example(both_sample[p], "both")]
        \o [p \in 1..Len(others) |-> example(others[p], "seams")]

\* how many values analyze_discrepancies draws from the generator
analysis_draws(file) ==
    Min(BothSampleLimit, Cardinality(Range(file.seams_texts) \cap file.fast_texts))
    + Min(SeamsSampleLimit, Len(file.seams_texts))

\* the examples find_overlapping_regions returns for a file: one for each
\* disagreement it finds, each with source_file=""
find_overlapping_regions(file) ==
    [p \in 1..Len(file.kinds) |->
        [key |-> <<"fast", file.kinds[p], "normal">>, disagreement_type |-> file.kinds[p],
         source_file |-> "", region |-> p]]

\* "for example in examples: example.source_file = ..."
set_source_file(examples, file) ==
    [p \in 1..Len(examples) |-> [examples[p] EXCEPT !.source_file = file.name]]

\* the records find_disagreements_in_file_pair returns for a file
find_disagreements_in_file_pair(file) ==
    [p \in 1..Len(file.kinds) |->
        [disagreement_type |-> file.kinds[p], source_file |-> file.name, region |-> p]]

\* a return without "Prioritize disagreements"
prioritize_in_file_order(found, target) == PySliceTo(found, target)

\* "prioritized = high_priority + medium_priority; return prioritized[:target_size]"
prioritize(found, target) ==
    LET high_priority ==
            Keeping(found, {d \in Range(found) : d.disagreement_type = "seams_vs_both"})
        medium_priority ==
            Keeping(found, {d \in Range(found) :
                               d.disagreement_type \in {"seams_vs_pysbd", "seams_vs_nupunkt"}})
    IN  PySliceTo(high_priority \o medium_priority, target)

\* how many values have been drawn when the sampling part, entered with c
\* values drawn, returns
draws_after_select(b, examples, target, seed, c) ==
    LET after     == SeededCategories(b, examples, target, seed, 1, <<>>, c)
        selected  == after[1]
        remaining == Remaining(examples, selected)
        k         == IF Len(selected) < target
                     THEN Min(target - Len(selected), Len(remaining))
                     ELSE 0
    IN  after[2] + k + Max(0, Len(selected) + k - 1)

----------------------------------------------------------------------------
(* Inputs and steps of a whole run *)

GoldFiles ==
    {[name |-> "a", seams_texts |-> <<"s1", "s2">>, fast_texts |-> {"s1", "s2"}, kinds |-> <<>>],
     [name |-> "b", seams_texts |-> <<"s3">>, fast_texts |-> {}, kinds |-> <<>>],
     [name |-> "c", seams_texts |-> <<"s2", "s3">>, fast_texts |-> {"s2"}, kinds |-> <<>>]}

BoundaryFiles ==
    {[name |-> "a", seams_texts |-> <<>>, fast_texts |-> {}, kinds |-> <<"over_split">>],
     [name |-> "b", seams_texts |-> <<>>, fast_texts |-> {},
      kinds |-> <<"under_split", "over_split">>],
     [name |-> "c", seams_texts |-> <<>>, fast_texts |-> {}, kinds |-> <<>>]}

DisagreementFiles ==
    {[name |-> "a", seams_texts |-> <<>>, fast_texts |-> {}, kinds |-> <<"seams_vs_both">>],
     [name |-> "b", seams_texts |-> <<>>, fast_texts |-> {},
      kinds |-> <<"seams_vs_pysbd", "seams_vs_both">>],
     [name |-> "c", seams_texts |-> <<>>, fast_texts |-> {}, kinds |-> <<"seams_vs_nupunkt">>]}

\* the file pairs a script finds: up to MaxFiles different files, in any order
FilePairs(name) ==
    LET files == CASE name = "build_gold_set" -> GoldFiles
                   [] name = "build_boundary_gold_set" -> BoundaryFiles
                   [] name = "build_seams_disagreement_set" -> DisagreementFiles
    IN  {list \in SeqsUpTo(files, MaxFiles) :
            \A p, q \in 1..Len(list) : p # q => list[p] # list[q]}

InitCorpus ==
    /\ corpus_script \in Scripts
    /\ file_pairs \in FilePairs(corpus_script)
    /\ max_files \in 0..MaxFiles
    /\ requested_size \in 0..MaxTarget
    /\ corpus_seed \in 0..MaxSeed
    /\ files_processed = 0
    /\ file_examples = <<>>
    /\ extended_files = 0
    /\ values_drawn = 0
    /\ selected_output = <<>>
    /\ exported = <<>>
    /\ gpc = "start"
    /\ OutsideCorpusIdle

\* all_examples / disagreements: the examples of the files extended so far
AllExamples == Flatten(SubSeq(file_examples, 1, extended_files))

\* "if max_files and len(file_pairs) > max_files:
\*      file_pairs = random.sample(file_pairs, max_files)"
LimitFiles ==
    /\ gpc = "start"
    /\ corpus_script \in {"build_gold_set", "build_boundary_gold_set"}
    /\ IF max_files # 0 /\ Len(file_pairs) > max_files
       THEN /\ file_pairs' = SeededSample(file_pairs, max_files, corpus_seed, values_drawn)
            /\ values_drawn' = values_drawn + max_files
       ELSE UNCHANGED <<file_pairs, values_drawn>>
    /\ gpc' = "analysing"
    /\ UNCHANGED <<corpus_script, max_files, requested_size, corpus_seed, files_processed,
                   file_examples, extended_files, selected_output, exported>>
    /\ UNCHANGED outsideCorpus

\* "random.shuffle(valid_file_pairs)"; the loop then walks
\* valid_file_pairs[:max_files]
ShuffleFiles ==
    /\ gpc = "start"
    /\ corpus_script = "build_seams_disagreement_set"
    /\ file_pairs' = PySliceTo(SeededShuffle(file_pairs, corpus_seed, values_drawn), max_files)
    /\ values_drawn' = values_drawn + Max(0, Len(file_pairs) - 1)
    /\ gpc' = "analysing"
    /\ UNCHANGED <<corpus_script, max_files, requested_size, corpus_seed, files_processed,
                   file_examples, extended_files, selected_output, exported>>
    /\ UNCHANGED outsideCorpus

\* build_gold_set: one iteration of the loop over the file pairs
AnalyzeNextFile ==
    /\ gpc = "analysing"
    /\ corpus_script = "build_gold_set"
    /\ files_processed < Len(file_pairs)
    /\ LET file == file_pairs[files_processed + 1]
       IN  /\ file_examples' =
                  Append(file_examples, analyze_discrepancies(file, corpus_seed, values_drawn))
           /\ values_drawn' = values_drawn + analysis_draws(file)
    /\ extended_files' = extended_files + 1
    /\ files_processed' = files_processed + 1
    /\ UNCHANGED <<corpus_script, file_pairs, max_files, requested_size, corpus_seed,
                   selected_output, exported, gpc>>
    /\ UNCHANGED outsideCorpus

\* analyze_boundary_disagreements up to the return of find_overlapping_regions
FindRegionsOfNextFile ==
    /\ gpc = "analysing"
    /\ corpus_script = "build_boundary_gold_set"
    /\ files_processed < Len(file_pairs)
    /\ file_examples' =
           Append(file_examples, find_overlapping_regions(file_pairs[files_processed + 1]))
    /\ gpc' = "found"
    /\ UNCHANGED <<corpus_script, file_pairs, max_files, requested_size, corpus_seed,
                   files_processed, extended_files, values_drawn, selected_output, exported>>
    /\ UNCHANGED outsideCorpus

\* analyze_boundary_disagreements: "Set source file for all examples"
SetSourceFile ==
    /\ gpc = "found"
    /\ file_examples' =
           [file_examples EXCEPT ![Len(file_examples)] =
               set_source_file(@, file_pairs[files_processed + 1])]
    /\ gpc' = "named"
    /\ UNCHANGED <<corpus_script, file_pairs, max_files, requested_size, corpus_seed,
                   files_processed, extended_files, values_drawn, selected_output, exported>>
    /\ UNCHANGED outsideCorpus

\* build_boundary_gold_set: "all_examples.extend(examples)"
ExtendAllExamples ==
    /\ gpc = "named"
    /\ extended_files' = extended_files + 1
    /\ files_processed' = files_processed + 1
    /\ gpc' = "analysing"
    /\ UNCHANGED <<corpus_script, file_pairs, max_files, requested_size, corpus_seed,
                   file_examples, values_drawn, selected_output, exported>>
    /\ UNCHANGED outsideCorpus

\* find_all_disagreements: one iteration of the loop over the file pairs,
\* with "if len(disagreements) >= target_size: break"
FindDisagreementsOfNextFile ==
    /\ gpc = "analysing"
    /\ corpus_script = "build_seams_disagreement_set"
    /\ files_processed < Len(file_pairs)
    /\ file_examples' =
           Append(file_examples,
                  find_disagreements_in_file_pair(file_pairs[files_processed + 1]))
    /\ extended_files' = extended_files + 1
    /\ files_processed' = files_processed + 1
    /\ gpc' = IF Len(Flatten(file_examples')) >= requested_size THEN "collected"
              ELSE "analysing"
    /\ UNCHANGED <<corpus_script, file_pairs, max_files, requested_size, corpus_seed,
                   values_drawn, selected_output, exported>>
    /\ UNCHANGED outsideCorpus

\* find_all_disagreements after its loop
PrioritizeDisagreements ==
    /\ corpus_script = "build_seams_disagreement_set"
    /\ \/ gpc = "collected"
       \/ gpc = "analysing" /\ files_processed = Len(file_pairs)
    /\ selected_output' = prioritize(AllExamples, requested_size)
    /\ gpc' = "selected"
    /\ UNCHANGED <<corpus_script, file_pairs, max_files, requested_size, corpus_seed,
                   files_processed, file_examples, extended_files, values_drawn, exported>>
    /\ UNCHANGED outsideCorpus

\* build_gold_set / build_boundary_gold_set after the loop: the sampling part
SampleAllExamples ==
    /\ gpc = "analysing"
    /\ corpus_script \in {"build_gold_set", "build_boundary_gold_set"}
    /\ files_processed = Len(file_pairs)
    /\ selected_output' = select_examples(SamplerOf(corpus_script), AllExamples,
                                          requested_size, corpus_seed, values_drawn)
    /\ values_drawn' = draws_after_select(SamplerOf(corpus_script), AllExamples, requested_size,
                                   corpus_seed, values_drawn)
    /\ gpc' = "selected"
    /\ UNCHANGED <<corpus_script, file_pairs, max_files, requested_size, corpus_seed,
                   files_processed, file_examples, extended_files, exported>>
    /\ UNCHANGED outsideCorpus

\* export_gold_set / export_boundary_gold_set / export_disagreements: the
\* fields of the returned records are written out
ExportSelected ==
    /\ gpc = "selected"
    /\ exported' = selected_output
    /\ gpc' = "done"
    /\ UNCHANGED <<corpus_script, file_pairs, max_files, requested_size, corpus_seed,
                   files_processed, file_examples, extended_files, values_drawn, selected_output>>
    /\ UNCHANGED outsideCorpus

NextCorpus ==
    \/ LimitFiles
    \/ ShuffleFiles
    \/ AnalyzeNextFile
    \/ FindRegionsOfNextFile
    \/ SetSourceFile
    \/ ExtendAllExamples
    \/ FindDisagreementsOfNextFile
    \/ PrioritizeDisagreements
    \/ SampleAllExamples
    \/ ExportSelected

SpecCorpus == InitCorpus /\ [][NextCorpus]_vars

----------------------------------------------------------------------------
(* Claims about a whole run *)

\* the step analyses a file pair
AnalysesFile == files_processed' = files_processed + 1 \/ Len(file_examples') > Len(file_examples)

IsHigh(d) == d.disagreement_type = "seams_vs_both"

IsMedium(d) == d.disagreement_type \in {"seams_vs_pysbd", "seams_vs_nupunkt"}

\* how many records of a list are seams_vs_both
HighCount(list) == Cardinality({p \in 1..Len(list) : IsHigh(list[p])})

\* what find_all_disagreements has returned
ReturnedPrioritized ==
    /\ Len(selected_output) <= requested_size
    /\ \A p, q \in 1..Len(selected_output) :
           (IsMedium(selected_output[p]) /\ IsHigh(selected_output[q])) => q < p
    /\ (\E p \in 1..Len(selected_output) : IsMedium(selected_output[p]))
           => HighCount(selected_output) = HighCount(AllExamples)
    /\ HighCount(selected_output) = Min(requested_size, HighCount(AllExamples))

\* a file pair is analysed after another only while fewer than target_size
\* records have been found
AnalysedWhileShort ==
    (AnalysesFile /\ files_processed > 0) => Len(AllExamples) < requested_size

\* C28: in build_seams_disagreement_set, find_all_disagreements returns at
\* most target_size records, every seams_vs_both record before every
\* seams_vs_pysbd / seams_vs_nupunkt record, and keeps a medium-priority
\* record only if it keeps every seams_vs_both record found; after a file
\* pair has been analysed a further one is analysed only while fewer than
\* target_size records have been found, and never more than max_files are
\* analysed.
C28_PrioritizedAndBounded ==
    /\ [](corpus_script = "build_seams_disagreement_set" =>
             /\ files_processed <= max_files
             /\ gpc \in {"selected", "done"} => ReturnedPrioritized)
    /\ [][corpus_script = "build_seams_disagreement_set" => AnalysedWhileShort]_vars

\* two file pairs were analysed; two medium-priority records were found
\* before a seams_vs_both one, which is returned first, and the target size
\* cuts off the second medium-priority record
C28_Witness ==
    /\ corpus_script = "build_seams_disagreement_set"
    /\ gpc = "done"
    /\ files_processed = 2
    /\ requested_size = 2
    /\ Len(AllExamples) = 3
    /\ IsMedium(AllExamples[1]) /\ IsMedium(AllExamples[2]) /\ IsHigh(AllExamples[3])
    /\ exported = <<AllExamples[3], AllExamples[1]>>

\* every record constructed so far has the same field values after the step
RecordsKept ==
    \A p \in 1..Len(file_examples) :
        /\ p <= Len(file_examples')
        /\ file_examples'[p] = file_examples[p]

\* what was written out are records as they were constructed
ExportedAsConstructed == \A x \in 1..Len(exported) : exported[x] \in Range(AllExamples)

\* C24: no step of a run, from the construction of a record to the export,
\* changes a field of a record that has been constructed, and the exported
\* records carry the field values they were constructed with.
C24_RecordsNeverModified == [][RecordsKept]_vars /\ []ExportedAsConstructed

\* the examples of the file pair analysed by the step, had c values been
\* drawn before
AnalysedWith(c) == analyze_discrepancies(file_pairs[files_processed + 1], corpus_seed, c)

\* the analysis of a file pair draws nothing from the generator
AnalysisDrawsNothing == AnalysesFile => values_drawn' = values_drawn

\* the candidates of a file pair do not depend on how many values the
\* analyses before it have drawn
CandidatesIndependent ==
    (AnalysesFile /\ corpus_script = "build_gold_set") =>
        \A c \in 0..values_drawn : file_examples'[Len(file_examples')] = AnalysedWith(c)

\* once the files are chosen, values are drawn only after the last file
\* pair has been analysed
SamplingDrawsLast ==
    (values_drawn' # values_drawn /\ gpc # "start") => files_processed = Len(file_pairs)

\* C25: the analysis of a file pair draws no value from the seeded
\* generator, the candidate records it produces are the same whatever was
\* analysed before it, and the draws of the sampling part happen only after
\* the last file pair has been analysed.
C25_AnalysisIsolated ==
    [][AnalysisDrawsNothing /\ CandidatesIndependent /\ SamplingDrawsLast]_vars

====
